---- MODULE Spec2Model ----
(***************************************************************************)
(* Move classification of kirankaranth1/pgn-analyzeV2 (move-classifier):   *)
(* the Classifier waterfall (classification/classifier.py), the point-loss *)
(* classifier (classification/point_loss_classifier.py) and the evaluation *)
(* model (utils/evaluation_utils.py).                                      *)
(*                                                                         *)
(* Expected points are fixed-point numbers in millionths (1.0 = 1000000).  *)
(* Centipawn values range over multiples of 25 and the values just below   *)
(* the mate-to-centipawn thresholds; mate values are signed integers.      *)
(***************************************************************************)
EXTENDS Integers, Sequences, FiniteSets, TLC

VARIABLES
    config,               \* Classifier._config
    last_classification,  \* Classifier._last_classification
    node,                 \* the StateTreeNode handed to the latest call
    outcome,              \* what the latest call did
    prevOutcome,          \* what the call before it did (ply k-1)
    ply,                  \* number of calls made on this Classifier
    basic,                \* result of BasicClassifier.classify_from_state_tree_node
    plLabel,              \* result of a direct point_loss_classify call
    board,                \* the position handed to a tactical utility
    frontier,             \* get_attacking_moves: the work-list
    attacking_moves,      \* get_attacking_moves: the list being built
    handled,              \* get_attacking_moves: entries popped so far
    answer                \* what the tactical utility returned

classifier_vars ==
    << config, last_classification, node, outcome, prevOutcome, ply, basic,
       plLabel >>

tactical_vars ==
    << board, frontier, attacking_moves, handled, answer >>

vars ==
    << config, last_classification, node, outcome, prevOutcome, ply, basic,
       plLabel, board, frontier, attacking_moves, handled, answer >>

-----------------------------------------------------------------------------
(* Bounds *)

MaxCpStep == 40      \* centipawn values are 25 * (-MaxCpStep .. MaxCpStep)
MaxMate == 8         \* mate values are -MaxMate .. MaxMate
MaxPly == 3          \* plies classified by one Classifier
MaxLegalMoves == 2   \* legal moves counted in the parent position
MaxUnsafe == 2       \* unsafe pieces of the mover on one board
MaxLineLen == 4      \* squares of one line that leads to the attacked piece
MaxDirect == 2       \* direct attackers of one piece
MaxRevealed == 1     \* attackers of one piece revealed behind the direct ones
MaxDefenders == 2    \* defenders of one piece
MaxReplies == 2      \* acting moves handed to has_danger_levels
MaxEscapes == 2      \* legal moves of the piece is_piece_trapped looks at

-----------------------------------------------------------------------------
(* models/enums.py *)

WHITE == "WHITE"
BLACK == "BLACK"
PieceColor == {WHITE, BLACK}

FORCED == "FORCED"
BOOK == "BOOK"
BEST == "BEST"
EXCELLENT == "EXCELLENT"
GOOD == "GOOD"
INACCURACY == "INACCURACY"
MISTAKE == "MISTAKE"
BLUNDER == "BLUNDER"
CRITICAL == "CRITICAL"
BRILLIANT == "BRILLIANT"

Classification ==
    {FORCED, BOOK, BEST, EXCELLENT, GOOD, INACCURACY, MISTAKE, BLUNDER,
     CRITICAL, BRILLIANT}

\* Python's None
None == "None"

CLASSIFICATION_VALUES(c) ==
    CASE c = BLUNDER -> 0
      [] c = MISTAKE -> 1
      [] c = INACCURACY -> 2
      [] c = GOOD -> 3
      [] c = EXCELLENT -> 4
      [] c = BEST -> 5
      [] c = CRITICAL -> 6
      [] c = BRILLIANT -> 7
      [] c = FORCED -> 100
      [] c = BOOK -> 100
      [] OTHER -> 0

-----------------------------------------------------------------------------
(* models/state_tree.py: Evaluation *)

Centipawn(v) == [type |-> "centipawn", value |-> v]
Mate(v) == [type |-> "mate", value |-> v]

CpEdgeValues == {1, 199, 399, 799}

CpValues ==
    {25 * i : i \in (0 - MaxCpStep) .. MaxCpStep}
        \cup CpEdgeValues \cup {0 - e : e \in CpEdgeValues}

MateValues == (0 - MaxMate) .. MaxMate

-----------------------------------------------------------------------------
(* utils/evaluation_utils.py *)

\* 1 / (1 + exp(-0.0035 * c)) in millionths, for c = 0, 25, 50, ..., 1200
SigmoidTable ==
    << 500000, 521861, 543639, 565251, 586618, 607663, 628316, 648511,
       668188, 687294, 705785, 723622, 740775, 757220, 772942, 787931,
       802184, 815703, 828495, 840573, 851953, 862653, 872695, 882103,
       890903, 899121, 906785, 913923, 920561, 926729, 932453, 937760,
       942676, 947225, 951432, 955319, 958909, 962221, 965277, 968093,
       970688, 973077, 975277, 977302, 979164, 980876, 982450, 983897,
       985226 >>

\* the same for the centipawn values in CpEdgeValues
SigmoidEdge(c) ==
    CASE c = 1 -> 500875
      [] c = 199 -> 667411
      [] c = 399 -> 801628
      [] c = 799 -> 942486

Sigmoid(c) ==
    LET a == IF c < 0 THEN 0 - c ELSE c
        p == IF a \in CpEdgeValues THEN SigmoidEdge(a)
             ELSE SigmoidTable[(a \div 25) + 1]
    IN  IF c < 0 THEN 1000000 - p ELSE p

\* math.exp(-0.0035 * value) raises OverflowError from this many centipawns
\* below zero on (the argument of exp exceeds 709.78)
ExpOverflowCp == 202796

\* get_expected_points raises OverflowError on this evaluation
exp_overflows(evaluation) ==
    evaluation.type = "centipawn" /\ evaluation.value <= 0 - ExpOverflowCp

flip_piece_color(color) == IF color = WHITE THEN BLACK ELSE WHITE

get_expected_points(evaluation, move_colour) ==
    IF evaluation.type = "mate"
    THEN IF evaluation.value = 0
         THEN (IF move_colour = WHITE THEN 1000000 ELSE 0)
         ELSE (IF evaluation.value > 0 THEN 1000000 ELSE 0)
    ELSE Sigmoid(evaluation.value)

\* a subjective view that gives Black the size of the evaluation, unsigned
unsigned_evaluation_for_black(evaluation, player_color) ==
    [type |-> evaluation.type,
     value |-> IF player_color = WHITE \/ evaluation.value >= 0
               THEN evaluation.value ELSE 0 - evaluation.value]

get_subjective_evaluation(evaluation, player_color) ==
    [type |-> evaluation.type,
     value |-> evaluation.value * (IF player_color = WHITE THEN 1 ELSE 0 - 1)]

\* get_expected_points_loss without the max(0.0, ...)
expected_points_difference(previous_evaluation, current_evaluation, move_color) ==
    (get_expected_points(previous_evaluation, flip_piece_color(move_color))
        - get_expected_points(current_evaluation, move_color))
      * (IF move_color = WHITE THEN 1 ELSE 0 - 1)

get_expected_points_loss(previous_evaluation, current_evaluation, move_color) ==
    LET prev_ep == get_expected_points(previous_evaluation,
                                       flip_piece_color(move_color))
        curr_ep == get_expected_points(current_evaluation, move_color)
        multiplier == IF move_color = WHITE THEN 1 ELSE 0 - 1
        loss == (prev_ep - curr_ep) * multiplier
    IN  IF loss > 0 THEN loss ELSE 0

-----------------------------------------------------------------------------
(* classification/point_loss_classifier.py *)

\* MateToMate with the last band one label too harsh
MateToMateHarsh(previousSubjectiveValue, subjectiveValue, mateLoss) ==
    IF previousSubjectiveValue > 0 /\ subjectiveValue < 0
    THEN (IF subjectiveValue < 0 - 3 THEN MISTAKE ELSE BLUNDER)
    ELSE IF mateLoss < 0 \/ (mateLoss = 0 /\ subjectiveValue < 0) THEN BEST
    ELSE IF mateLoss < 2 THEN EXCELLENT
    ELSE IF mateLoss < 7 THEN GOOD
    ELSE MISTAKE

\* the mate-to-mate branch, lines 41-67
MateToMate(previousSubjectiveValue, subjectiveValue, mateLoss) ==
    IF previousSubjectiveValue > 0 /\ subjectiveValue < 0
    THEN (IF subjectiveValue < 0 - 3 THEN MISTAKE ELSE BLUNDER)
    ELSE IF mateLoss < 0 \/ (mateLoss = 0 /\ subjectiveValue < 0) THEN BEST
    ELSE IF mateLoss < 2 THEN EXCELLENT
    ELSE IF mateLoss < 7 THEN GOOD
    ELSE INACCURACY

\* MateToCentipawn with strict comparisons
MateToCentipawnStrict(subjectiveValue) ==
    IF subjectiveValue > 800 THEN EXCELLENT
    ELSE IF subjectiveValue > 400 THEN GOOD
    ELSE IF subjectiveValue > 200 THEN INACCURACY
    ELSE IF subjectiveValue > 0 THEN MISTAKE
    ELSE BLUNDER

\* the mate-to-centipawn branch, lines 69-83
MateToCentipawn(subjectiveValue) ==
    IF subjectiveValue >= 800 THEN EXCELLENT
    ELSE IF subjectiveValue >= 400 THEN GOOD
    ELSE IF subjectiveValue >= 200 THEN INACCURACY
    ELSE IF subjectiveValue >= 0 THEN MISTAKE
    ELSE BLUNDER

\* CentipawnToMate with the mate lengths shifted by one
CentipawnToMateShifted(subjectiveValue) ==
    IF subjectiveValue > 0 THEN BEST
    ELSE IF subjectiveValue >= 0 - 3 THEN BLUNDER
    ELSE IF subjectiveValue >= 0 - 6 THEN MISTAKE
    ELSE INACCURACY

\* the centipawn-to-mate branch, lines 85-97
CentipawnToMate(subjectiveValue) ==
    IF subjectiveValue > 0 THEN BEST
    ELSE IF subjectiveValue >= 0 - 2 THEN BLUNDER
    ELSE IF subjectiveValue >= 0 - 5 THEN MISTAKE
    ELSE INACCURACY

\* PointLossBand with the INACCURACY band folded into MISTAKE
PointLossBandShifted(pointLoss) ==
    IF pointLoss < 10000 THEN BEST
    ELSE IF pointLoss < 45000 THEN EXCELLENT
    ELSE IF pointLoss < 80000 THEN GOOD
    ELSE IF pointLoss < 120000 THEN MISTAKE
    ELSE IF pointLoss < 220000 THEN MISTAKE
    ELSE BLUNDER

\* the centipawn-to-centipawn thresholds, lines 109-120
PointLossBand(pointLoss) ==
    IF pointLoss < 10000 THEN BEST
    ELSE IF pointLoss < 45000 THEN EXCELLENT
    ELSE IF pointLoss < 80000 THEN GOOD
    ELSE IF pointLoss < 120000 THEN INACCURACY
    ELSE IF pointLoss < 220000 THEN MISTAKE
    ELSE BLUNDER

\* previous, current: ExtractedPreviousNode, ExtractedCurrentNode
point_loss_classify(previous, current) ==
    LET move_color_is_white == previous.board.turn = WHITE
        sign == IF move_color_is_white THEN 1 ELSE 0 - 1
        previousSubjectiveValue == previous.evaluation.value * sign
        subjectiveValue == current.subjective_evaluation.value
        mateLoss == (current.evaluation.value - previous.evaluation.value) * sign
        move_color == IF move_color_is_white THEN WHITE ELSE BLACK
    IN  IF previous.evaluation.type = "mate" /\ current.evaluation.type = "mate"
        THEN MateToMate(previousSubjectiveValue, subjectiveValue, mateLoss)
        ELSE IF previous.evaluation.type = "mate"
                /\ current.evaluation.type = "centipawn"
        THEN MateToCentipawn(subjectiveValue)
        ELSE IF previous.evaluation.type = "centipawn"
                /\ current.evaluation.type = "mate"
        THEN CentipawnToMate(subjectiveValue)
        ELSE PointLossBand(get_expected_points_loss(previous.evaluation,
                                                    current.evaluation,
                                                    move_color))

\* point_loss_classify raises OverflowError: the centipawn-to-centipawn case
\* asks get_expected_points for both evaluations
point_loss_overflows(previous, current) ==
    /\ previous.evaluation.type = "centipawn"
    /\ current.evaluation.type = "centipawn"
    /\ exp_overflows(previous.evaluation) \/ exp_overflows(current.evaluation)

-----------------------------------------------------------------------------
(* The StateTreeNode handed to classify, as the board-query capability and  *)
(* the evaluation feed describe it.                                         *)

NoEvaluation == [type |-> None, value |-> 0]

\* no index-2 line next to the top line of the parent
NoSecondLine == [evaluation |-> NoEvaluation, move_ok |-> FALSE]

\* a mover's piece (not a pawn, not the king) that is_piece_safe reports
\* unsafe on the board after the move
UnsafePiece(v, d, t) == [value |-> v, has_danger_levels |-> d, is_trapped |-> t]

\* what the board queries of the tactical analysis answer for the node
Tactics(pc, cc, promo, cv, cs, ep, pu, pt, mt, after) ==
    [previous_is_check |-> pc,        \* previous.board.is_check()
     current_is_check |-> cc,         \* current.board.is_check()
     promotion |-> promo,             \* played_move.promotion
     captured_value |-> cv,           \* value of the piece on the to-square
     captured_safe |-> cs,            \* is_piece_safe(previous.board, it)
     en_passant |-> ep,               \* None, or for an en passant capture
                                      \* (the pawn taken is not on the
                                      \* to-square) whether that pawn was
                                      \* "safe" or "unsafe" before the move
     previous_unsafe |-> pu,          \* mover's unsafe pieces before the move
     previous_trapped |-> pt,         \* ... of which is_piece_trapped
     moved_piece_trapped |-> mt,      \* the moved piece was one of those
     unsafe_after |-> after]          \* sequence of UnsafePiece

QuietMove == Tactics(FALSE, FALSE, None, 0, TRUE, None, 0, 0, FALSE, << >>)
Sacrifice ==
    Tactics(FALSE, FALSE, None, 0, TRUE, None, 0, 0, FALSE,
            << UnsafePiece(9, FALSE, FALSE) >>)
FreeCapture == Tactics(FALSE, FALSE, None, 3, FALSE, None, 0, 0, FALSE, << >>)

NodeSet(roots, parents, turns, prevEvals, curEvals, seconds, legals, books, mates, tops, tacs) ==
    { n \in [has_parent : roots,
             parent_is_root : parents,
             turn : turns,
             previous_evaluation : prevEvals,
             current_evaluation : curEvals,
             second : seconds,
             legal_moves : legals,
             opening_name : books,
             is_checkmate : mates,
             top_move_played : tops,
             tactics : tacs] :
        \* a second line belongs to a parent that has a top line
        /\ (n.previous_evaluation.type = None => n.second = NoSecondLine)
        \* with one legal move the engine's top move is the move played
        /\ (n.legal_moves <= 1 /\ n.previous_evaluation.type # None
              /\ n.current_evaluation.type # None => n.top_move_played)
        \* a move compared with the top move needs both nodes
        /\ (n.previous_evaluation.type = None
              \/ n.current_evaluation.type = None => ~n.top_move_played) }

NoNode ==
    [has_parent |-> FALSE, parent_is_root |-> FALSE, turn |-> WHITE,
     previous_evaluation |-> NoEvaluation, current_evaluation |-> NoEvaluation,
     second |-> NoSecondLine, legal_moves |-> 0, opening_name |-> None,
     is_checkmate |-> FALSE, top_move_played |-> FALSE, tactics |-> QuietMove]

-----------------------------------------------------------------------------
(* preprocessing/node_extractor.py *)

Unavailable == [ok |-> FALSE]

extract_previous_state_tree_node(n) ==
    IF n.previous_evaluation.type = None
    THEN Unavailable
    ELSE LET \* colour of the move that led to the parent position, WHITE
             \* when the parent is the root
             player_color == IF n.parent_is_root THEN WHITE
                             ELSE flip_piece_color(n.turn)
         IN  [ok |-> TRUE,
              board |-> [turn |-> n.turn,
                         legal_moves |-> n.legal_moves,
                         is_check |-> n.tactics.previous_is_check,
                         captured_value |-> n.tactics.captured_value,
                         captured_safe |-> n.tactics.captured_safe,
                         unsafe_pieces |-> n.tactics.previous_unsafe,
                         trapped_pieces |-> n.tactics.previous_trapped,
                         moved_piece_trapped |->
                             n.tactics.moved_piece_trapped],
              evaluation |-> n.previous_evaluation,
              subjective_evaluation |->
                  get_subjective_evaluation(n.previous_evaluation, player_color),
              second_top_line |-> [evaluation |-> n.second.evaluation],
              second_subjective_evaluation |->
                  IF n.second.evaluation.type # None /\ n.second.move_ok
                  THEN get_subjective_evaluation(n.second.evaluation,
                                                 player_color)
                  ELSE NoEvaluation]

extract_current_state_tree_node(n) ==
    IF ~n.has_parent \/ n.current_evaluation.type = None
    THEN Unavailable
    ELSE [ok |-> TRUE,
          board |-> [is_checkmate |-> n.is_checkmate,
                     is_check |-> n.tactics.current_is_check,
                     unsafe_pieces |-> n.tactics.unsafe_after],
          played_move |-> [promotion |-> n.tactics.promotion],
          evaluation |-> n.current_evaluation,
          subjective_evaluation |->
              get_subjective_evaluation(n.current_evaluation, n.turn)]

-----------------------------------------------------------------------------
(* classification/critical_move.py *)

is_move_critical_candidate(previous, current) ==
    LET second_subjective_eval == previous.second_subjective_evaluation
    IN  IF /\ second_subjective_eval.type # None
           /\ second_subjective_eval.type = "centipawn"
           /\ second_subjective_eval.value >= 700
        THEN FALSE
        ELSE IF /\ second_subjective_eval.type = None
                /\ current.evaluation.type = "centipawn"
                /\ current.subjective_evaluation.value >= 700
        THEN FALSE
        ELSE IF current.subjective_evaluation.value < 0 THEN FALSE
        ELSE IF current.played_move.promotion = "queen" THEN FALSE
        ELSE IF previous.board.is_check THEN FALSE
        ELSE TRUE

(* classification/critical_classifier.py *)

\* lines 45-82: the tests passed before the second line's loss is computed
second_line_compared(previous, current) ==
    IF ~is_move_critical_candidate(previous, current) THEN FALSE
    ELSE IF /\ current.subjective_evaluation.type = "mate"
            /\ current.subjective_evaluation.value > 0
    THEN FALSE
    ELSE IF previous.board.captured_value > 0 /\ ~previous.board.captured_safe
    THEN FALSE
    ELSE previous.second_top_line.evaluation.type # None

\* consider_critical_classification raises OverflowError at lines 88-92
critical_overflows(previous, current) ==
    /\ second_line_compared(previous, current)
    /\ \/ exp_overflows(previous.evaluation)
       \/ exp_overflows(previous.second_top_line.evaluation)

consider_critical_classification(previous, current) ==
    IF ~second_line_compared(previous, current) THEN FALSE
    ELSE get_expected_points_loss(previous.evaluation,
                                  previous.second_top_line.evaluation,
                                  previous.board.turn) >= 100000

(* classification/brilliant_classifier.py *)

\* all_have_danger_levels that never finds the pieces protected
none_has_danger_levels(unsafe_pieces) == FALSE

\* lines 88-96: all(has_danger_levels(...) for unsafe_piece in unsafe_pieces)
all_have_danger_levels(unsafe_pieces) ==
    \A i \in 1 .. Len(unsafe_pieces) : unsafe_pieces[i].has_danger_levels

consider_brilliant_classification(previous, current) ==
    IF ~is_move_critical_candidate(previous, current) THEN FALSE
    ELSE IF current.played_move.promotion # None THEN FALSE
    ELSE
      LET captured_piece_value == previous.board.captured_value
          unsafe_pieces ==
              SelectSeq(current.board.unsafe_pieces,
                        LAMBDA p : p.value > captured_piece_value)
          danger_levels_protected == all_have_danger_levels(unsafe_pieces)
          trapped_pieces ==
              SelectSeq(unsafe_pieces, LAMBDA p : p.is_trapped)
      IN  IF /\ ~current.board.is_check
             /\ Len(unsafe_pieces) < previous.board.unsafe_pieces
          THEN FALSE
          ELSE IF danger_levels_protected THEN FALSE
          ELSE IF \/ Len(trapped_pieces) = Len(unsafe_pieces)
                  \/ previous.board.moved_piece_trapped
                  \/ Len(trapped_pieces) < previous.board.trapped_pieces
          THEN FALSE
          ELSE Len(unsafe_pieces) > 0

(* classification/missed_opportunity_classifier.py *)

\* the rule with an INACCURACY of the opponent counted as an error too
missed_after_any_inaccuracy(current_classification, opponent_previous_classification) ==
    /\ current_classification \in {INACCURACY, MISTAKE, BLUNDER}
    /\ opponent_previous_classification \in {INACCURACY, MISTAKE, BLUNDER}

consider_missed_opportunity_classification(current_classification, opponent_previous_classification) ==
    IF current_classification \notin {INACCURACY, MISTAKE, BLUNDER} THEN FALSE
    ELSE IF opponent_previous_classification \notin {MISTAKE, BLUNDER}
    THEN FALSE
    ELSE TRUE

-----------------------------------------------------------------------------
(* config.py and the options object classify reads *)

\* ClassificationConfig() of config.py: none of the include_* attributes
DefaultClassificationConfig ==
    [has_flags |-> FALSE, include_theory |-> FALSE, include_critical |-> FALSE,
     include_brilliant |-> FALSE, include_missed_opportunity |-> FALSE]

\* an options object that carries the four include_* attributes
AnalysisOptions(t, c, b, m) ==
    [has_flags |-> TRUE, include_theory |-> t, include_critical |-> c,
     include_brilliant |-> b, include_missed_opportunity |-> m]

-----------------------------------------------------------------------------
(* classification/classifier.py *)

Raised(exception, last) ==
    [raised |-> exception, classification |-> None,
     is_missed_opportunity |-> FALSE, base |-> None, critical |-> None,
     opening |-> None, last |-> last]

\* a result whose construction writes an opening name in every case
ReturnedNamingOpening(classification, missed, base, critical, opening) ==
    [raised |-> None, classification |-> classification,
     is_missed_opportunity |-> missed, base |-> base, critical |-> critical,
     opening |-> "Unnamed Opening",
     last |-> classification]

\* a result returned without storing its label for the next move
ReturnedForgettingLabel(classification, missed, base, critical, opening) ==
    [raised |-> None, classification |-> classification,
     is_missed_opportunity |-> missed, base |-> base, critical |-> critical,
     opening |-> opening,
     last |-> None]

Returned(classification, missed, base, critical, opening) ==
    [raised |-> None, classification |-> classification,
     is_missed_opportunity |-> missed, base |-> base, critical |-> critical,
     opening |-> opening,
     last |-> classification]

\* is_forced with an off-by-one bound
is_forced_off_by_one(previous) == previous.board.legal_moves <= 2

\* Priority 1, line 84
is_forced(previous) == previous.board.legal_moves <= 1

\* is_theory without the include_theory toggle
is_theory_ignoring_toggle(opts, opening_name) == opening_name # None

\* Priority 2, lines 91-93: opening_name is the book's entry for the piece
\* placement of the resulting position (None when it has none; the names of
\* the book are non-empty strings)
is_theory(opts, opening_name) == opts.include_theory /\ opening_name # None

\* point_loss_stage without the top-move shortcut
point_loss_stage_numeric_only(top_move_played, previous, current) ==
    point_loss_classify(previous, current)

\* lines 108-116
point_loss_stage(top_move_played, previous, current) ==
    IF top_move_played THEN BEST ELSE point_loss_classify(previous, current)

\* is_best_or_better with the gate lowered to EXCELLENT
is_excellent_or_better(classification) ==
    CLASSIFICATION_VALUES(classification) >= CLASSIFICATION_VALUES(EXCELLENT)

\* line 129: the label BRILLIANT may replace
is_best_or_better(classification) ==
    CLASSIFICATION_VALUES(classification) >= CLASSIFICATION_VALUES(BEST)

\* Classifier.classify(n) with options opts and _last_classification last:
\* the exception raised or the result returned, the label of the point-loss
\* stage (base), the opening name written on the node's state and the new
\* _last_classification
classify(n, opts, last) ==
    IF ~n.has_parent THEN Raised("ValueError", last)
    ELSE
      LET previous == extract_previous_state_tree_node(n)
          current == extract_current_state_tree_node(n)
      IN
      IF ~previous.ok \/ ~current.ok THEN Raised("ValueError", last)
      ELSE IF is_forced(previous)
      THEN Returned(FORCED, FALSE, None, None, None)
      ELSE IF ~opts.has_flags THEN Raised("AttributeError", last)
      ELSE IF is_theory(opts, n.opening_name)
      THEN Returned(BOOK, FALSE, None, None, n.opening_name)
      ELSE IF current.board.is_checkmate
      THEN Returned(BEST, FALSE, None, None, None)
      ELSE IF ~n.top_move_played /\ point_loss_overflows(previous, current)
      THEN Raised("OverflowError", last)
      ELSE IF /\ opts.include_critical /\ n.top_move_played
              /\ critical_overflows(previous, current)
      THEN Raised("OverflowError", last)
      ELSE
        LET top_move_played == n.top_move_played
            base == point_loss_stage(top_move_played, previous, current)
            critical ==
                IF /\ opts.include_critical
                   /\ top_move_played
                   /\ consider_critical_classification(previous, current)
                THEN CRITICAL ELSE base
            classification ==
                IF /\ opts.include_brilliant
                   /\ is_best_or_better(critical)
                   /\ consider_brilliant_classification(previous, current)
                THEN BRILLIANT ELSE critical
            is_missed_opportunity ==
                IF opts.include_missed_opportunity /\ last # None
                THEN consider_missed_opportunity_classification(
                         classification, last)
                ELSE FALSE
        IN  Returned(classification, is_missed_opportunity, base, critical,
                     None)

NoOutcome ==
    [call |-> None, returned |-> None, raised |-> None,
     classification |-> None, is_missed_opportunity |-> FALSE,
     base |-> None, critical |-> None, opening |-> None]

\* what a call leaves in outcome: returned is "result", "raise" (the
\* exception leaves the call) or None (classify_with_fallback caught a
\* ValueError or an AttributeError)
Outcome(call, r) ==
    [call |-> call,
     returned |-> IF r.raised = None THEN "result"
                  ELSE IF call = "classify_with_fallback"
                          /\ r.raised \in {"ValueError", "AttributeError"}
                  THEN None
                  ELSE "raise",
     raised |-> r.raised,
     classification |-> r.classification,
     is_missed_opportunity |-> r.is_missed_opportunity,
     base |-> r.base,
     critical |-> r.critical,
     opening |-> r.opening]

-----------------------------------------------------------------------------
(* classification/basic_classifier.py *)

NoBasic == [called |-> FALSE, classification |-> None, opening |-> None]

\* BasicClassifier(include_theory).classify_from_state_tree_node(n): the
\* label returned (None when no rule applies) and the opening name written
classify_from_state_tree_node(n, include_theory) ==
    IF ~n.has_parent
    THEN [called |-> TRUE, classification |-> None, opening |-> None]
    ELSE IF include_theory /\ n.opening_name # None
    THEN [called |-> TRUE, classification |-> BOOK, opening |-> n.opening_name]
    ELSE IF n.is_checkmate
    THEN [called |-> TRUE, classification |-> BEST, opening |-> None]
    ELSE [called |-> TRUE, classification |-> None, opening |-> None]

-----------------------------------------------------------------------------
(* Spec: one Classifier classifying the plies of a game in order, as the    *)
(* traversal of visualize_game.py does (a failed node is skipped).          *)

GameConfigs ==
    {DefaultClassificationConfig,
     AnalysisOptions(TRUE, TRUE, TRUE, TRUE),
     AnalysisOptions(TRUE, TRUE, TRUE, FALSE)}

\* the nodes ply k + 1 can be: White moves on odd plies; each label of the
\* point-loss stage is reachable from an even position
GameNodes(k) ==
    LET turn == IF k % 2 = 0 THEN WHITE ELSE BLACK
        s == IF turn = WHITE THEN 0 - 1 ELSE 1
    IN  NodeSet({TRUE}, {k = 0}, {turn},
                {NoEvaluation, Centipawn(0)},
                {NoEvaluation, Centipawn(0 - ExpOverflowCp)} \cup
                    {Centipawn(s * c) : c \in {0, 25, 75, 125, 200, 400}},
                {NoSecondLine},
                1 .. MaxLegalMoves,
                {None, "Italian Game"},
                {FALSE},
                BOOLEAN,
                {QuietMove, Sacrifice})

\* a tactical utility that has not been called
\* played_move: Optional[chess.Move] = None, and a move that was given
NoPlayedMove == [given |-> FALSE, captured |-> None]

PlayedMove(captured) == [given |-> TRUE, captured |-> captured]

NoAnswer ==
    [call |-> None, returned |-> FALSE, value |-> None,
     played_move |-> NoPlayedMove]

\* no tactical utility is running
NoTacticalCall ==
    /\ board = None
    /\ frontier = << >>
    /\ attacking_moves = << >>
    /\ handled = 0
    /\ answer = NoAnswer

Init ==
    /\ config \in GameConfigs
    /\ last_classification = None
    /\ node = NoNode
    /\ outcome = NoOutcome
    /\ prevOutcome = NoOutcome
    /\ ply = 0
    /\ basic = NoBasic
    /\ plLabel = None
    /\ NoTacticalCall

\* Classifier.classify_with_fallback(n)
ClassifyWithFallback(n) ==
    /\ ply < MaxPly
    \* an exception that leaves the call ends the traversal
    /\ outcome.returned # "raise"
    /\ LET r == classify(n, config, last_classification)
       IN  /\ outcome' = Outcome("classify_with_fallback", r)
           /\ last_classification' = r.last
    /\ node' = n
    /\ prevOutcome' = outcome
    /\ ply' = ply + 1
    /\ UNCHANGED << config, basic, plLabel >>
    /\ UNCHANGED tactical_vars

Next == \E n \in GameNodes(ply) : ClassifyWithFallback(n)

Spec == Init /\ [][Next]_vars

-----------------------------------------------------------------------------
(* SpecClassify: one call of Classifier.classify on any node, with any     *)
(* options and any stored previous classification.                          *)

Configs ==
    {DefaultClassificationConfig}
        \cup {AnalysisOptions(t, c, b, m) : t, c, b, m \in BOOLEAN}

ClassifyEvaluations ==
    {Centipawn(0 - 300), Centipawn(0), Centipawn(300), Mate(0 - 2), Mate(3)}

ClassifyNodes ==
    NodeSet(BOOLEAN, BOOLEAN, PieceColor,
            {NoEvaluation, Centipawn(0), Centipawn(300), Mate(3)},
            {NoEvaluation} \cup ClassifyEvaluations,
            {NoSecondLine, [evaluation |-> Centipawn(0 - 300), move_ok |-> TRUE]},
            1 .. MaxLegalMoves,
            {None, "Italian Game"},
            BOOLEAN,
            BOOLEAN,
            {QuietMove, Sacrifice})

InitClassify ==
    /\ config \in Configs
    /\ last_classification \in {None, BLUNDER}
    /\ node \in ClassifyNodes
    /\ outcome = NoOutcome
    /\ prevOutcome = NoOutcome
    /\ ply = 0
    /\ basic = NoBasic
    /\ plLabel = None
    /\ NoTacticalCall

\* Classifier.classify(node)
Classify ==
    /\ outcome.call = None
    /\ LET r == classify(node, config, last_classification)
       IN  /\ outcome' = Outcome("classify", r)
           /\ last_classification' = r.last
    /\ ply' = ply + 1
    /\ UNCHANGED << config, node, prevOutcome, basic, plLabel >>
    /\ UNCHANGED tactical_vars

\* BasicClassifier(include_theory).classify_from_state_tree_node(node)
ClassifyFromStateTreeNode(include_theory) ==
    /\ ~basic.called
    /\ basic' = classify_from_state_tree_node(node, include_theory)
    /\ UNCHANGED << config, last_classification, node, outcome, prevOutcome,
                    ply, plLabel >>
    /\ UNCHANGED tactical_vars

NextClassify ==
    \/ Classify
    \/ \E include_theory \in BOOLEAN :
           ClassifyFromStateTreeNode(include_theory)

SpecClassify == InitClassify /\ [][NextClassify]_vars

-----------------------------------------------------------------------------
(* SpecRefine: one call of Classifier.classify on a resolved node that is   *)
(* neither forced, book nor checkmate, with any answers of the tactical     *)
(* analysis, so that the CRITICAL and BRILLIANT steps decide the label.     *)

\* the kinds of unsafe piece the mover can be left with (a queen or a
\* knight), by what has_danger_levels and is_piece_trapped say of each
UnsafePieceKinds ==
    {UnsafePiece(9, d, t) : d, t \in BOOLEAN} \cup {UnsafePiece(3, FALSE, FALSE)}

\* rank of a kind, to list the pieces of a board in one order only
KindRank(p) ==
    (IF p.value = 9 THEN 0 ELSE 4) + (IF p.has_danger_levels THEN 2 ELSE 0)
        + (IF p.is_trapped THEN 1 ELSE 0)

UnsafeLists ==
    UNION { { s \in [1 .. k -> UnsafePieceKinds] :
                \A i \in 1 .. k - 1 : KindRank(s[i]) <= KindRank(s[i + 1]) } :
            k \in 0 .. MaxUnsafe }

RefineTactics ==
    { t \in [previous_is_check : BOOLEAN,
             current_is_check : BOOLEAN,
             promotion : {None, "queen", "knight"},
             captured_value : {0, 3},
             captured_safe : BOOLEAN,
             en_passant : {None, "safe", "unsafe"},
             previous_unsafe : 0 .. MaxUnsafe,
             previous_trapped : 0 .. 1,
             moved_piece_trapped : BOOLEAN,
             unsafe_after : UnsafeLists] :
        \* nothing captured: nothing to ask is_piece_safe about
        /\ (t.captured_value = 0 => t.captured_safe)
        \* an en passant capture lands on an empty square and is not a
        \* promotion
        /\ (t.en_passant # None => t.captured_value = 0 /\ t.promotion = None)
        \* the trapped pieces are among the unsafe ones, the moved piece
        \* among the trapped ones
        /\ t.previous_trapped <= t.previous_unsafe
        /\ (t.moved_piece_trapped => t.previous_trapped > 0) }

RefineConfigs == {AnalysisOptions(FALSE, c, b, TRUE) : c, b \in BOOLEAN}

RefineNodes ==
    NodeSet({TRUE}, {FALSE}, PieceColor,
            {Centipawn(0)},
            {Centipawn(0 - 300), Centipawn(0), Centipawn(300),
             Mate(0 - 3), Mate(3)},
            {NoSecondLine,
             [evaluation |-> Centipawn(0 - 300), move_ok |-> TRUE],
             [evaluation |-> Centipawn(300), move_ok |-> TRUE],
             [evaluation |-> Centipawn(0 - 300), move_ok |-> FALSE]},
            {MaxLegalMoves}, {None}, {FALSE}, BOOLEAN, RefineTactics)

InitRefine ==
    /\ config \in RefineConfigs
    /\ last_classification = None
    /\ node \in RefineNodes
    /\ outcome = NoOutcome
    /\ prevOutcome = NoOutcome
    /\ ply = 0
    /\ basic = NoBasic
    /\ plLabel = None
    /\ NoTacticalCall

NextRefine == Classify

SpecRefine == InitRefine /\ [][NextRefine]_vars

-----------------------------------------------------------------------------
(* SpecPointLoss: point_loss_classify on any pair of evaluations.          *)

PointLossEvaluations ==
    {Centipawn(c) : c \in CpValues} \cup {Mate(m) : m \in MateValues}

PointLossNodes ==
    NodeSet({TRUE}, {FALSE}, PieceColor,
            PointLossEvaluations \ {Mate(0)},
            PointLossEvaluations,
            {NoSecondLine}, {MaxLegalMoves}, {None}, {FALSE}, {FALSE},
            {QuietMove})

InitPointLoss ==
    /\ config = AnalysisOptions(TRUE, TRUE, TRUE, TRUE)
    /\ last_classification = None
    /\ node \in PointLossNodes
    /\ outcome = NoOutcome
    /\ prevOutcome = NoOutcome
    /\ ply = 0
    /\ basic = NoBasic
    /\ plLabel = None
    /\ NoTacticalCall

PointLossClassify ==
    /\ plLabel = None
    /\ plLabel' = point_loss_classify(extract_previous_state_tree_node(node),
                                      extract_current_state_tree_node(node))
    /\ UNCHANGED << config, last_classification, node, outcome, prevOutcome,
                    ply, basic >>
    /\ UNCHANGED tactical_vars

NextPointLoss == PointLossClassify

SpecPointLoss == InitPointLoss /\ [][NextPointLoss]_vars

-----------------------------------------------------------------------------
(* Properties of a game classified in ply order, checked under Spec *)

ErrorLabels == {MISTAKE, BLUNDER}

\* C1: the missed-opportunity flag of ply k is set only if ply k-1 was
\* labelled MISTAKE or BLUNDER; a ply k-1 that could not be classified has
\* no label, and the label of ply k-2 or before never sets the flag.
C1_MissedOnlyAfterPreviousPlyError ==
    outcome.is_missed_opportunity
        => prevOutcome.classification \in ErrorLabels

\* the flag follows the label of ply k-1 whenever ply k-1 got one
C1_HoldsAfterClassifiedPly ==
    outcome.is_missed_opportunity /\ prevOutcome.returned = "result"
        => prevOutcome.classification \in ErrorLabels

\* ply k is flagged although ply k-1 could not be classified
C1_StaleLabelSetsFlag ==
    /\ outcome.is_missed_opportunity
    /\ prevOutcome.call # None
    /\ prevOutcome.returned = None
    /\ last_classification \in {INACCURACY, MISTAKE, BLUNDER}

\* C16: classify_with_fallback never lets an exception escape into the
\* traversal: whenever classifying the node fails, for whatever reason, it
\* returns None.
C16_FallbackNeverRaises ==
    outcome.call = "classify_with_fallback" => outcome.returned # "raise"

\* the failures classify_with_fallback does turn into None
C16_ValueAndAttributeErrorCaught ==
    outcome.call = "classify_with_fallback"
        /\ outcome.raised \in {"ValueError", "AttributeError"}
        => outcome.returned = None

\* an OverflowError of the expected-points formula leaves
\* classify_with_fallback
C16_OverflowErrorEscapes ==
    /\ outcome.call = "classify_with_fallback"
    /\ outcome.raised = "OverflowError"
    /\ outcome.returned = "raise"
    /\ exp_overflows(node.current_evaluation)

-----------------------------------------------------------------------------
(* Properties of one classify call, checked under SpecClassify *)

PreviousNode == extract_previous_state_tree_node(node)
CurrentNode == extract_current_state_tree_node(node)

\* the node has a parent and both extractions yield a node
Resolved == node.has_parent /\ PreviousNode.ok /\ CurrentNode.ok

\* the options object carries the theory toggle and it is on
TheoryEnabled == config.has_flags /\ config.include_theory

InBook == node.opening_name # None

\* C2: when the extraction of the previous or of the current node yields
\* unavailable, classify still labels a move into a book position THEORY
\* (theory enabled) and otherwise a move into checkmate BEST.
C2_EngineFreeChecksStillRun ==
    outcome.call # None /\ node.has_parent /\ ~Resolved
        => /\ (TheoryEnabled /\ InBook => outcome.classification = BOOK)
           /\ (node.is_checkmate /\ ~(TheoryEnabled /\ InBook)
                 => outcome.classification = BEST)

\* a node without engine data gets no label from classify, whatever its
\* position is
C2_UnresolvedNodeRaises ==
    outcome.call # None /\ ~Resolved
        => /\ outcome.raised = "ValueError"
           /\ outcome.classification = None

\* the checkmating move of a node without engine lines raises, while
\* BasicClassifier.classify_from_state_tree_node labels the same node BEST
C2_MateWithoutEngineData ==
    /\ outcome.call # None
    /\ node.has_parent /\ ~Resolved
    /\ node.is_checkmate /\ ~InBook
    /\ outcome.raised = "ValueError"
    /\ basic.called /\ basic.classification = BEST

\* C3: for a node whose previous and current data resolved, the label is
\* FORCED exactly when the parent position has at most one legal move,
\* whatever the options, the book, the resulting position and the
\* evaluations are.
C3_ForcedIffAtMostOneLegalMove ==
    outcome.call # None /\ Resolved
        => (outcome.classification = FORCED <=> node.legal_moves <= 1)

\* a forced move into a book position that is checkmate, theory enabled
C3_Witness ==
    /\ outcome.classification = FORCED
    /\ Resolved
    /\ node.legal_moves <= 1
    /\ InBook /\ node.is_checkmate /\ TheoryEnabled

-----------------------------------------------------------------------------
(* Properties of point_loss_classify, checked under SpecPointLoss *)

MoverSign == IF node.turn = WHITE THEN 1 ELSE 0 - 1

\* the evaluations before and after the move, seen from the mover's side
PreviousSubjective == node.previous_evaluation.value * MoverSign
CurrentSubjective == node.current_evaluation.value * MoverSign

\* the mover's loss in moves-to-mate
MoverMateLoss == CurrentSubjective - PreviousSubjective

Transition(before, after) ==
    /\ plLabel # None
    /\ node.previous_evaluation.type = before
    /\ node.current_evaluation.type = after

\* C6: in a mate-to-mate transition where the mover had a forced mate before
\* the move and is being mated after it, point_loss_classify returns BLUNDER,
\* whatever the length of the mate the mover now faces.
C6_FlipIsBlunder ==
    (Transition("mate", "mate")
        /\ PreviousSubjective > 0 /\ CurrentSubjective < 0)
    => plLabel = BLUNDER

\* C7: in a mate-to-mate transition that is not a winning-to-losing flip the
\* label follows the mover's loss L in moves-to-mate: 0 <= L < 1 BEST,
\* 1 <= L < 2 EXCELLENT, 2 <= L < 7 GOOD, L >= 7 INACCURACY.
C7_MateLossBands ==
    (Transition("mate", "mate")
        /\ ~(PreviousSubjective > 0 /\ CurrentSubjective < 0)
        /\ MoverMateLoss >= 0)
    => plLabel = (IF MoverMateLoss < 1 THEN BEST
                  ELSE IF MoverMateLoss < 2 THEN EXCELLENT
                  ELSE IF MoverMateLoss < 7 THEN GOOD
                  ELSE INACCURACY)

\* C8 as stated: in a mate-to-mate transition where the mover is being mated
\* both before and after the move, point_loss_classify never returns a label
\* worse than BEST.
C8_LosingSideNeverBelowBest ==
    (Transition("mate", "mate")
        /\ PreviousSubjective < 0 /\ CurrentSubjective < 0)
    => CLASSIFICATION_VALUES(plLabel) >= CLASSIFICATION_VALUES(BEST)

\* C8 as amended: where the mover is being mated both before and after the
\* move, the label is BEST when the mate does not come sooner (L <= 0);
\* when it comes L moves sooner the label is EXCELLENT for L < 2, GOOD for
\* 2 <= L < 7 and INACCURACY for L >= 7; it is never MISTAKE or BLUNDER.
C8_LosingSideByMateLoss ==
    (Transition("mate", "mate")
        /\ PreviousSubjective < 0 /\ CurrentSubjective < 0)
    => /\ plLabel = (IF MoverMateLoss <= 0 THEN BEST
                     ELSE IF MoverMateLoss < 2 THEN EXCELLENT
                     ELSE IF MoverMateLoss < 7 THEN GOOD
                     ELSE INACCURACY)
       /\ plLabel \notin {MISTAKE, BLUNDER}

\* a mover mated in 8 before the move and in 1 after it: INACCURACY
C8_Witness ==
    /\ Transition("mate", "mate")
    /\ PreviousSubjective < 0 /\ CurrentSubjective < 0
    /\ MoverMateLoss >= 7
    /\ plLabel = INACCURACY

\* the point loss of the move, in millionths
MoverPointLoss ==
    get_expected_points_loss(node.previous_evaluation, node.current_evaluation,
                             node.turn)

\* C9: for a centipawn-to-centipawn transition on a move that is not the top
\* engine move the label is fixed by the point loss: below 0.01 BEST, from
\* 0.01 to below 0.045 EXCELLENT, from 0.045 to below 0.08 GOOD, from 0.08 to
\* below 0.12 INACCURACY, from 0.12 to below 0.22 MISTAKE, 0.22 or more
\* BLUNDER; a loss equal to a threshold falls in the worse band.
C9_PointLossBands ==
    (Transition("centipawn", "centipawn") /\ ~node.top_move_played)
    => /\ (MoverPointLoss < 10000) = (plLabel = BEST)
       /\ (MoverPointLoss >= 10000 /\ MoverPointLoss < 45000)
            = (plLabel = EXCELLENT)
       /\ (MoverPointLoss >= 45000 /\ MoverPointLoss < 80000)
            = (plLabel = GOOD)
       /\ (MoverPointLoss >= 80000 /\ MoverPointLoss < 120000)
            = (plLabel = INACCURACY)
       /\ (MoverPointLoss >= 120000 /\ MoverPointLoss < 220000)
            = (plLabel = MISTAKE)
       /\ (MoverPointLoss >= 220000) = (plLabel = BLUNDER)

\* a Black move from +1.00 to +2.00 (White's view) loses 0.082: INACCURACY
C9_Witness ==
    /\ Transition("centipawn", "centipawn")
    /\ ~node.top_move_played
    /\ node.turn = BLACK
    /\ MoverPointLoss >= 80000 /\ MoverPointLoss < 120000
    /\ plLabel = INACCURACY

\* C10: in a mate-to-centipawn transition where the mover let a forced mate
\* slip the label depends only on the resulting centipawns seen from the
\* mover's side: 800 or more EXCELLENT, 400 to 799 GOOD, 200 to 399
\* INACCURACY, 0 to 199 MISTAKE, below 0 BLUNDER.
C10_MateSlipBands ==
    (Transition("mate", "centipawn") /\ PreviousSubjective > 0)
    => plLabel = (IF CurrentSubjective >= 800 THEN EXCELLENT
                  ELSE IF CurrentSubjective >= 400 THEN GOOD
                  ELSE IF CurrentSubjective >= 200 THEN INACCURACY
                  ELSE IF CurrentSubjective >= 0 THEN MISTAKE
                  ELSE BLUNDER)

\* Black had a forced mate and is left with exactly +8.00 from its own side
C10_Witness ==
    /\ Transition("mate", "centipawn")
    /\ PreviousSubjective > 0
    /\ node.turn = BLACK
    /\ CurrentSubjective = 800
    /\ plLabel = EXCELLENT


\* C11: in a centipawn-to-mate transition a mate in the mover's favour after
\* the move gives BEST; otherwise the mover is being mated and the label is
\* BLUNDER when mated in 2 or fewer, MISTAKE when mated in 3 to 5 and
\* INACCURACY when mated in more than 5.
C11_CentipawnToMateBands ==
    Transition("centipawn", "mate")
    => plLabel = (IF CurrentSubjective > 0 THEN BEST
                  ELSE IF 0 - CurrentSubjective <= 2 THEN BLUNDER
                  ELSE IF 0 - CurrentSubjective <= 5 THEN MISTAKE
                  ELSE INACCURACY)

\* Black, level before the move, is mated in exactly 3 after it
C11_Witness ==
    /\ Transition("centipawn", "mate")
    /\ node.turn = BLACK
    /\ CurrentSubjective = 0 - 3
    /\ plLabel = MISTAKE


-----------------------------------------------------------------------------
(* Properties of the CRITICAL and BRILLIANT steps, checked under SpecRefine *)

\* expected points the parent's second-best line gives up against its top
\* line, from the mover's side, in millionths
SecondLineLoss ==
    LET top == get_expected_points(node.previous_evaluation, node.turn)
        second == get_expected_points(node.second.evaluation, node.turn)
        loss == IF node.turn = WHITE THEN top - second
                ELSE (1000000 - top) - (1000000 - second)
    IN  IF loss > 0 THEN loss ELSE 0

\* what the claim lists about a CRITICAL move, the captured piece apart
CriticalConditions ==
    /\ node.top_move_played
    /\ node.second.evaluation.type # None
    /\ ~node.tactics.previous_is_check
    /\ node.tactics.promotion # "queen"
    /\ CurrentSubjective >= 0
    /\ ~(node.current_evaluation.type = "mate" /\ CurrentSubjective > 0)
    /\ SecondLineLoss >= 100000

\* C12: whenever classify returns CRITICAL the played move is the parent's
\* top engine move, a second-best line with an evaluation was resolved, the
\* mover was not in check, the move is not a queen promotion, the position
\* after the move is neither losing nor a forced mate for the mover, any
\* piece the move captured was safe before the move, and the second-best
\* line costs at least 0.10 expected points.
C12_CriticalConditions ==
    outcome.classification = CRITICAL
        => /\ CriticalConditions
           /\ (node.tactics.captured_value > 0 => node.tactics.captured_safe)
           /\ node.tactics.en_passant # "unsafe"

\* the same with the captured piece looked for on the to-square only
C12_CriticalConditionsOnToSquare ==
    outcome.classification = CRITICAL
        => /\ CriticalConditions
           /\ (node.tactics.captured_value > 0 => node.tactics.captured_safe)

\* a CRITICAL move that took an unsafe pawn en passant
C12_FreePawnTakenEnPassant ==
    /\ outcome.classification = CRITICAL
    /\ node.tactics.en_passant = "unsafe"
    /\ CriticalConditions


\* C13: whenever classify returns BRILLIANT the label before the BRILLIANT
\* step was BEST or CRITICAL; a move whose point-loss label is EXCELLENT,
\* GOOD, INACCURACY, MISTAKE or BLUNDER is never promoted, and neither is a
\* FORCED or THEORY move.
C13_BrilliantOnlyOnBestOrBetter ==
    /\ outcome.classification = BRILLIANT
          => outcome.critical \in {BEST, CRITICAL}
    /\ outcome.base \in {EXCELLENT, GOOD, INACCURACY, MISTAKE, BLUNDER}
          => outcome.classification = outcome.base
    /\ outcome.call # None /\ outcome.base = None
          => outcome.classification # BRILLIANT

\* a CRITICAL move promoted to BRILLIANT
C13_Witness ==
    /\ outcome.classification = BRILLIANT
    /\ outcome.critical = CRITICAL
    /\ config.include_critical /\ config.include_brilliant


\* the mover's unsafe pieces after the move that are worth more than what
\* the move captured
RiskedPieces ==
    { i \in 1 .. Len(node.tactics.unsafe_after) :
        node.tactics.unsafe_after[i].value > node.tactics.captured_value }

Risked(i) == node.tactics.unsafe_after[i]

C15_LoweringOnlyWhenMoverInCheck ==
    (/\ outcome.classification = BRILLIANT
     /\ Len(node.tactics.unsafe_after) < node.tactics.previous_unsafe)
        => node.tactics.previous_is_check

\* a move made while in check is never BRILLIANT, so the exception of the
\* claim is never used
C15_NeverBrilliantOutOfCheck ==
    outcome.call # None /\ node.tactics.previous_is_check
        => outcome.classification # BRILLIANT

\* the exclusion is lifted by the check the move gives, not by a check the
\* mover was in
C15_LoweringOnlyWhenGivingCheck ==
    (/\ outcome.classification = BRILLIANT
     /\ Len(node.tactics.unsafe_after) < node.tactics.previous_unsafe)
        => node.tactics.current_is_check /\ ~node.tactics.previous_is_check

\* BRILLIANT for a move that gives check and leaves the mover, who was not
\* in check, with fewer unsafe pieces than before
C15_BrilliantWhileGivingCheck ==
    /\ outcome.classification = BRILLIANT
    /\ Len(node.tactics.unsafe_after) < node.tactics.previous_unsafe
    /\ node.tactics.current_is_check
    /\ ~node.tactics.previous_is_check


-----------------------------------------------------------------------------
(* utils/attackers.py: get_attacking_moves on the lines that lead to the   *)
(* attacked piece.  A board is the attacker side's pieces on three lines   *)
(* towards the attacked square, nearest square first, and whether a pawn   *)
(* capture on that square promotes.                                        *)

PAWN == "pawn"
KNIGHT == "knight"
BISHOP == "bishop"
ROOK == "rook"
QUEEN == "queen"
KING == "king"

Empty == "empty"
DIAGONAL == "diagonal"
STRAIGHT == "straight"

\* the attacked piece's square
TargetSquare == << 0, 0 >>

\* models/chess_types.py RawMove (the colour is the attacker side's throughout)
RawMove(piece, from_square, promotion) ==
    [piece |-> piece, from_square |-> from_square,
     to_square |-> TargetSquare, promotion |-> promotion]

TransitiveAttacker(direct_fen, square, piece_type) ==
    [direct_fen |-> direct_fen, square |-> square, piece_type |-> piece_type]

\* whether a piece of this type, `distance` squares away on a line of this
\* direction with nothing in between, has a capture on the attacked square
attacks_along(piece_type, direction, distance) ==
    CASE piece_type = QUEEN -> TRUE
      [] piece_type = ROOK -> direction = STRAIGHT
      [] piece_type = BISHOP -> direction = DIAGONAL
      [] piece_type = PAWN -> direction = DIAGONAL /\ distance = 1
      [] piece_type = KING -> distance = 1
      [] OTHER -> FALSE

\* index of the nearest occupied square of a line, 0 when the line is empty
first_piece(squares) ==
    LET occupied == {j \in DOMAIN squares : squares[j] # Empty}
    IN  IF occupied = {} THEN 0
        ELSE CHOOSE j \in occupied : \A k \in occupied : j <= k

\* the captures on the attacked square that start on line i
line_attacking_moves(b, i) ==
    LET line == b.lines[i]
        j == first_piece(line.squares)
    IN  IF j = 0 THEN << >>
        ELSE IF ~attacks_along(line.squares[j], line.direction, j) THEN << >>
        ELSE IF line.squares[j] = PAWN /\ b.promotes
             THEN << RawMove(PAWN, << i, j >>, QUEEN),
                     RawMove(PAWN, << i, j >>, ROOK),
                     RawMove(PAWN, << i, j >>, BISHOP),
                     RawMove(PAWN, << i, j >>, KNIGHT) >>
        ELSE << RawMove(line.squares[j], << i, j >>, None) >>

RECURSIVE attacking_moves_upto(_, _)
attacking_moves_upto(b, i) ==
    IF i = 0 THEN << >>
    ELSE attacking_moves_upto(b, i - 1) \o line_attacking_moves(b, i)

\* _direct_attacking_moves(board, piece)
direct_attacking_moves(b) == attacking_moves_upto(b, Len(b.lines))

\* a removal that leaves the piece where it stands
remove_no_piece(b, square) == b

\* chess.Board.remove_piece_at(square)
remove_piece_at(b, square) ==
    [b EXCEPT !.lines[square[1]].squares[square[2]] = Empty]

\* every attacker found after the removal, whether it was there before or not
moves_after_removal(old_moves, new_moves, removed_square) == new_moves

\* the moves of new_moves that no move of old_moves matches
revealed_moves(old_moves, new_moves, removed_square) ==
    LET old_filtered ==
            SelectSeq(old_moves, LAMBDA m : m.from_square # removed_square)
        matched(move) ==
            \E k \in DOMAIN old_filtered :
                /\ old_filtered[k].from_square = move.from_square
                /\ old_filtered[k].to_square = move.to_square
                /\ old_filtered[k].piece = move.piece
    IN  SelectSeq(new_moves, LAMBDA m : ~matched(m))

\* frontier entries for a list of moves that are direct on position fen
frontier_entries(fen, moves) ==
    [k \in DOMAIN moves |->
        TransitiveAttacker(fen, moves[k].from_square, moves[k].piece)]

\* number of pieces on the lines of a board
RECURSIVE pieces_upto(_, _)
pieces_upto(b, i) ==
    IF i = 0 THEN 0
    ELSE pieces_upto(b, i - 1)
         + Cardinality({j \in DOMAIN b.lines[i].squares :
                            b.lines[i].squares[j] # Empty})

piece_count(b) == pieces_upto(b, Len(b.lines))

-----------------------------------------------------------------------------
(* SpecBattery: one get_attacking_moves call, one loop iteration a step.   *)

\* a front piece, then queens, then possibly a rook with a queen behind it
RECURSIVE Queens(_)
Queens(n) == IF n = 0 THEN << >> ELSE << QUEEN >> \o Queens(n - 1)

LinesOfLength(fronts, maxlen) ==
    {<< >>}
    \cup {<< f >> \o Queens(n) : f \in fronts, n \in 0 .. (maxlen - 1)}
    \cup {<< f >> \o Queens(n) \o << ROOK, QUEEN >> :
              f \in fronts, n \in 0 .. (maxlen - 3)}

BatteryBoards ==
    {[lines |-> << [direction |-> DIAGONAL, squares |-> a],
                   [direction |-> DIAGONAL, squares |-> c],
                   [direction |-> STRAIGHT, squares |-> s] >>,
      promotes |-> p] :
        a \in LinesOfLength({PAWN, BISHOP, KING}, MaxLineLen),
        c \in LinesOfLength({PAWN}, MaxLineLen - 1),
        s \in LinesOfLength({ROOK, KNIGHT}, MaxLineLen + 1),
        p \in BOOLEAN}

IdleClassifier ==
    /\ config = AnalysisOptions(TRUE, TRUE, TRUE, TRUE)
    /\ last_classification = None
    /\ node = NoNode
    /\ outcome = NoOutcome
    /\ prevOutcome = NoOutcome
    /\ ply = 0
    /\ basic = NoBasic
    /\ plLabel = None

InitBattery ==
    /\ IdleClassifier
    /\ board \in BatteryBoards
    /\ frontier = << >>
    /\ attacking_moves = << >>
    /\ handled = 0
    /\ answer = [call |-> None, returned |-> FALSE, value |-> << >>,
                 transitive |-> FALSE]

\* get_attacking_moves(board, piece, transitive) up to the loop
GetAttackingMoves(transitive) ==
    /\ answer.call = None
    /\ LET direct == direct_attacking_moves(board)
       IN  /\ attacking_moves' = direct
           /\ IF transitive
              THEN /\ frontier' = frontier_entries(board, direct)
                   /\ answer' = [call |-> "get_attacking_moves",
                                 returned |-> FALSE, value |-> << >>,
                                 transitive |-> TRUE]
              ELSE /\ frontier' = << >>
                   /\ answer' = [call |-> "get_attacking_moves",
                                 returned |-> TRUE, value |-> direct,
                                 transitive |-> FALSE]
    /\ UNCHANGED << board, handled >>
    /\ UNCHANGED classifier_vars

\* one iteration of `while frontier:`
PopFrontier ==
    /\ answer.call = "get_attacking_moves"
    /\ ~answer.returned
    /\ frontier # << >>
    /\ LET transitive_attacker == frontier[Len(frontier)]
           rest == SubSeq(frontier, 1, Len(frontier) - 1)
           transitive_board == transitive_attacker.direct_fen
           old_attacking_moves == direct_attacking_moves(transitive_board)
           removed == remove_piece_at(transitive_board,
                                      transitive_attacker.square)
           new_attacking_moves == direct_attacking_moves(removed)
           revealed_attacking_moves ==
               revealed_moves(old_attacking_moves, new_attacking_moves,
                              transitive_attacker.square)
       IN  IF transitive_attacker.piece_type = KING
           THEN /\ frontier' = rest
                /\ UNCHANGED attacking_moves
           ELSE /\ attacking_moves' =
                       attacking_moves \o revealed_attacking_moves
                /\ frontier' =
                       rest \o frontier_entries(removed,
                                                revealed_attacking_moves)
    /\ handled' = handled + 1
    /\ UNCHANGED << board, answer >>
    /\ UNCHANGED classifier_vars

\* `return attacking_moves` once the frontier is empty
ReturnAttackingMoves ==
    /\ answer.call = "get_attacking_moves"
    /\ ~answer.returned
    /\ frontier = << >>
    /\ answer' = [answer EXCEPT !.returned = TRUE, !.value = attacking_moves]
    /\ UNCHANGED << board, frontier, attacking_moves, handled >>
    /\ UNCHANGED classifier_vars

NextBattery ==
    \/ \E transitive \in BOOLEAN : GetAttackingMoves(transitive)
    \/ PopFrontier
    \/ ReturnAttackingMoves

\* the loop is sequential code: an enabled iteration is taken
SpecBattery == InitBattery /\ [][NextBattery]_vars /\ WF_vars(NextBattery)


-----------------------------------------------------------------------------
(* Properties of the battery work-list, checked under SpecBattery *)

\* every queued entry names a piece that stands on the entry's own board,
\* and that board has lost one piece for every removal that led to it
ShrinkingFrontier ==
    \A k \in DOMAIN frontier :
        LET e == frontier[k]
        IN  /\ e.direct_fen.lines[e.square[1]].squares[e.square[2]]
                   = e.piece_type
            /\ piece_count(e.direct_fen) <= piece_count(board)
            /\ piece_count(e.direct_fen) >= 1

\* C17 as stated: the battery work-list always empties and handles at most
\* 32 entries on every position.
C17_EmptiesWithinThirtyTwoEntries ==
    /\ [](handled <= 32)
    /\ <>[](answer.call = "get_attacking_moves" /\ answer.returned)

\* C17: the battery work-list always empties and never queues an attacker
\* without end: every entry stands on a board that has lost a piece, and the
\* entries handled number at most four per attacker piece on the lines (a
\* promoting pawn capture is four moves); the code has no fixed cap of 32.
C17_EmptiesBoundedByPieces ==
    /\ [](ShrinkingFrontier /\ handled <= 4 * piece_count(board))
    /\ <>[](answer.call = "get_attacking_moves" /\ answer.returned)

\* a position whose work-list handled more than 32 entries and still emptied
C17_Witness ==
    /\ answer.call = "get_attacking_moves"
    /\ answer.returned
    /\ handled > 32
    /\ Len(answer.value) = handled


-----------------------------------------------------------------------------
(* constants.py PIECE_VALUES and utils/piece_safety.py is_piece_safe.      *)
(* The lists are the piece types of get_attacking_moves(transitive=False), *)
(* of the attackers revealed by get_attacking_moves(transitive=True) and   *)
(* of get_defending_moves(transitive=True).                                *)

\* float('inf')
Infinity == 1000

PIECE_VALUES ==
    [pawn |-> 1, knight |-> 3, bishop |-> 3, rook |-> 5, queen |-> 9,
     king |-> Infinity]

\* the smallest value among a non-empty list of piece types
lowest_value(pieces) ==
    LET values == {PIECE_VALUES[pieces[k]] : k \in DOMAIN pieces}
    IN  CHOOSE v \in values : \A w \in values : v <= w

has_lower_value_attacker(piece, direct_attackers) ==
    \E k \in DOMAIN direct_attackers :
        PIECE_VALUES[direct_attackers[k]] < PIECE_VALUES[piece]

\* lines 49-60: a rook that took a minor piece, attacked once by a minor piece
favorable_sacrifice(piece, attackers, defenders, played_move) ==
    /\ played_move.given
    /\ played_move.captured # None
    /\ piece = ROOK
    /\ PIECE_VALUES[played_move.captured] = PIECE_VALUES[KNIGHT]
    /\ Len(attackers) = 1
    /\ Len(defenders) > 0
    /\ PIECE_VALUES[attackers[1]] = PIECE_VALUES[KNIGHT]

\* lines 76-89
defended_below_lowest_attacker(piece, direct_attackers, defenders) ==
    /\ direct_attackers # << >>
    /\ PIECE_VALUES[piece] < lowest_value(direct_attackers)
    /\ \E k \in DOMAIN defenders :
           PIECE_VALUES[defenders[k]] < lowest_value(direct_attackers)

has_pawn_defender(defenders) ==
    \E k \in DOMAIN defenders : defenders[k] = PAWN

\* a piece is safe when its attackers do not outnumber its defenders
is_piece_safe_by_count(b, played_move) ==
    Len(b.direct_attackers \o b.revealed_attackers) <= Len(b.defenders)

\* is_piece_safe(board, piece, played_move)
is_piece_safe(b, played_move) ==
    LET direct_attackers == b.direct_attackers
        attackers == b.direct_attackers \o b.revealed_attackers
        defenders == b.defenders
    IN  IF favorable_sacrifice(b.piece, attackers, defenders, played_move)
        THEN TRUE
        ELSE IF has_lower_value_attacker(b.piece, direct_attackers)
        THEN FALSE
        ELSE IF Len(attackers) <= Len(defenders) THEN TRUE
        ELSE IF defended_below_lowest_attacker(b.piece, direct_attackers,
                                               defenders)
        THEN TRUE
        ELSE has_pawn_defender(defenders)

-----------------------------------------------------------------------------
(* SpecPieceSafety: one is_piece_safe call on any piece with any attackers *)
(* and defenders.                                                          *)

RECURSIVE ListsUpTo(_, _)
ListsUpTo(S, n) ==
    IF n = 0 THEN {<< >>}
    ELSE LET shorter == ListsUpTo(S, n - 1)
         IN  shorter \cup {Append(l, x) : l \in shorter, x \in S}

\* a side has one king
AtMostOneKing(pieces) ==
    Cardinality({k \in DOMAIN pieces : pieces[k] = KING}) <= 1

SafetyBoards ==
    {b \in [piece : {PAWN, KNIGHT, ROOK, QUEEN},
            direct_attackers :
                ListsUpTo({PAWN, KNIGHT, ROOK, QUEEN, KING}, MaxDirect),
            revealed_attackers : ListsUpTo({BISHOP, QUEEN}, MaxRevealed),
            defenders : ListsUpTo({PAWN, KNIGHT, QUEEN, KING}, MaxDefenders)] :
        /\ AtMostOneKing(b.direct_attackers)
        /\ AtMostOneKing(b.defenders)
        \* a battery has a piece in front
        /\ b.direct_attackers = << >> => b.revealed_attackers = << >>}

PlayedMoves == {NoPlayedMove, PlayedMove(None), PlayedMove(KNIGHT)}

InitPieceSafety ==
    /\ IdleClassifier
    /\ board \in SafetyBoards
    /\ frontier = << >>
    /\ attacking_moves = << >>
    /\ handled = 0
    /\ answer = NoAnswer

\* is_piece_safe(board, piece, played_move)
IsPieceSafe(played_move) ==
    /\ answer.call = None
    /\ answer' = [call |-> "is_piece_safe", returned |-> TRUE,
                  value |-> is_piece_safe(board, played_move),
                  played_move |-> played_move]
    /\ UNCHANGED << board, frontier, attacking_moves, handled >>
    /\ UNCHANGED classifier_vars

NextPieceSafety == \E played_move \in PlayedMoves : IsPieceSafe(played_move)

SpecPieceSafety == InitPieceSafety /\ [][NextPieceSafety]_vars

-----------------------------------------------------------------------------
(* Properties of is_piece_safe, checked under SpecPieceSafety *)

SafetyAsked == answer.call = "is_piece_safe" /\ ~answer.played_move.given

NoLowerValueAttacker == ~has_lower_value_attacker(board.piece, board.direct_attackers)

NotOutnumbered ==
    Len(board.direct_attackers \o board.revealed_attackers)
        <= Len(board.defenders)

DefendedBelowAttacker ==
    defended_below_lowest_attacker(board.piece, board.direct_attackers, board.defenders)

PawnDefended == has_pawn_defender(board.defenders)

C18_DefendedQueenUnderKnightAttack ==
    /\ SafetyAsked
    /\ board.piece = QUEEN
    /\ board.direct_attackers = << KNIGHT >>
    /\ PawnDefended
    /\ NotOutnumbered
    /\ ~answer.value


-----------------------------------------------------------------------------
(* utils/danger_levels.py.  An acting move is described by what the board  *)
(* holds once it is pushed: whether the push succeeds, the piece that      *)
(* moved, the unsafe pieces of the acting side (get_unsafe_pieces without  *)
(* a played move), and whether the side to move then has a mating move.    *)
(* An unsafe piece records whether it stands on the threatened piece's     *)
(* square and whether the attacks on it were already relative attacks      *)
(* before the move.                                                        *)

BoardPiece(type, on_threatened_square, attacked_before) ==
    [type |-> type, on_threatened_square |-> on_threatened_square,
     attacked_before |-> attacked_before]

ActingMove(pushes, piece, unsafe_pieces, mate) ==
    [pushes |-> pushes, piece |-> piece, unsafe_pieces |-> unsafe_pieces,
     mate |-> mate]

\* _relative_unsafe_piece_attacks: the unsafe pieces whose attacks it returns
\* (an unsafe piece has at least one direct attacker)
relative_unsafe_piece_attacks(unsafe_pieces, threatened_piece) ==
    {p \in unsafe_pieces :
        /\ ~p.on_threatened_square
        /\ PIECE_VALUES[p.type] >= PIECE_VALUES[threatened_piece]}

\* get_unsafe_pieces(action_board, color, played_move) after the push: the
\* piece on played_move.to_square is the piece that moved
unsafe_pieces_given_move(acting_move) ==
    {p \in acting_move.unsafe_pieces :
        PIECE_VALUES[p.type] > PIECE_VALUES[acting_move.piece]}

low_value_checkmate_pin(threatened_piece, acting_move) ==
    /\ PIECE_VALUES[threatened_piece] < PIECE_VALUES[QUEEN]
    /\ acting_move.mate

move_creates_greater_threat(threatened_piece, acting_move) ==
    IF ~acting_move.pushes THEN FALSE
    ELSE LET relative_attacks ==
                 relative_unsafe_piece_attacks(
                     unsafe_pieces_given_move(acting_move), threatened_piece)
             new_relative_attacks ==
                 {p \in relative_attacks : ~p.attacked_before}
         IN  IF new_relative_attacks # {} THEN TRUE
             ELSE low_value_checkmate_pin(threatened_piece, acting_move)

move_leaves_greater_threat(threatened_piece, acting_move) ==
    IF ~acting_move.pushes THEN FALSE
    ELSE LET relative_attacks ==
                 relative_unsafe_piece_attacks(acting_move.unsafe_pieces,
                                               threatened_piece)
         IN  IF relative_attacks # {} THEN TRUE
             ELSE low_value_checkmate_pin(threatened_piece, acting_move)

\* one acting move with a greater threat is enough
any_move_has_danger_levels(threatened_piece, acting_moves, equality_strategy) ==
    \E k \in DOMAIN acting_moves :
        move_leaves_greater_threat(threatened_piece, acting_moves[k])

\* has_danger_levels(board, threatened_piece, acting_moves, equality_strategy)
has_danger_levels(threatened_piece, acting_moves, equality_strategy) ==
    IF equality_strategy = "creates"
    THEN \A k \in DOMAIN acting_moves :
             move_creates_greater_threat(threatened_piece, acting_moves[k])
    ELSE \A k \in DOMAIN acting_moves :
             move_leaves_greater_threat(threatened_piece, acting_moves[k])

-----------------------------------------------------------------------------
(* SpecDanger: one has_danger_levels call.                                 *)

\* the unsafe pieces an acting move can leave: the capturer itself, now on
\* the threatened piece's square, and pieces elsewhere
UnsafeAfterMove ==
    {BoardPiece(KNIGHT, TRUE, FALSE),
     BoardPiece(KNIGHT, FALSE, FALSE),
     BoardPiece(QUEEN, FALSE, FALSE),
     BoardPiece(QUEEN, FALSE, TRUE)}

ActingMoves ==
    {ActingMove(FALSE, KNIGHT, {}, FALSE)}
    \cup {ActingMove(TRUE, KNIGHT, u, m) :
              u \in SUBSET UnsafeAfterMove, m \in BOOLEAN}

DangerBoards ==
    [threatened_piece : {KNIGHT, ROOK, QUEEN},
     acting_moves : ListsUpTo(ActingMoves, MaxReplies)]

InitDanger ==
    /\ IdleClassifier
    /\ board \in DangerBoards
    /\ frontier = << >>
    /\ attacking_moves = << >>
    /\ handled = 0
    /\ answer = NoAnswer

\* has_danger_levels(board, threatened_piece, acting_moves, equality_strategy)
HasDangerLevels(equality_strategy) ==
    /\ answer.call = None
    /\ answer' = [call |-> "has_danger_levels", returned |-> TRUE,
                  value |-> has_danger_levels(board.threatened_piece,
                                              board.acting_moves,
                                              equality_strategy),
                  equality_strategy |-> equality_strategy]
    /\ UNCHANGED << board, frontier, attacking_moves, handled >>
    /\ UNCHANGED classifier_vars

NextDanger ==
    \E equality_strategy \in {"creates", "leaves"} :
        HasDangerLevels(equality_strategy)

SpecDanger == InitDanger /\ [][NextDanger]_vars

-----------------------------------------------------------------------------
(* Properties of has_danger_levels, checked under SpecDanger *)

\* the reply can be made and leaves another unsafe piece of the capturing
\* side worth at least the threatened piece, or a mate against the capturing
\* side when the threatened piece is worth less than a queen
CounterThreat(k) ==
    LET reply == board.acting_moves[k]
    IN  /\ reply.pushes
        /\ \/ \E p \in reply.unsafe_pieces :
                  /\ ~p.on_threatened_square
                  /\ PIECE_VALUES[p.type]
                         >= PIECE_VALUES[board.threatened_piece]
           \/ /\ PIECE_VALUES[board.threatened_piece] < PIECE_VALUES[QUEEN]
              /\ reply.mate

\* C19: has_danger_levels (default strategy) is true exactly when every reply
\* in the list leads to a counter-threat; one reply without it makes the
\* result false and an empty list makes it true.  With the "creates" strategy
\* a true result still means that every reply leads to a counter-threat.
C19_TrueIffEveryReplyLeavesCounterThreat ==
    /\ (answer.call = "has_danger_levels"
            /\ answer.equality_strategy = "leaves")
       => /\ answer.value
               <=> (\A k \in DOMAIN board.acting_moves : CounterThreat(k))
          /\ board.acting_moves = << >> => answer.value
    /\ (answer.call = "has_danger_levels"
            /\ answer.equality_strategy = "creates")
       => /\ answer.value
               => (\A k \in DOMAIN board.acting_moves : CounterThreat(k))
          /\ board.acting_moves = << >> => answer.value

\* two replies: one leaves an unsafe queen, the other walks into mate
C19_Witness ==
    /\ answer.call = "has_danger_levels"
    /\ answer.equality_strategy = "leaves"
    /\ Len(board.acting_moves) = 2
    /\ board.threatened_piece = ROOK
    /\ ~board.acting_moves[1].mate
    /\ board.acting_moves[2].mate
    /\ board.acting_moves[2].unsafe_pieces = {}
    /\ CounterThreat(1)
    /\ CounterThreat(2)
    /\ answer.value

\* one reply of two leaves no counter-threat: the piece is not protected
C19_OneReplyWithoutCounterThreat ==
    /\ answer.call = "has_danger_levels"
    /\ answer.equality_strategy = "leaves"
    /\ Len(board.acting_moves) = 2
    /\ CounterThreat(1)
    /\ ~CounterThreat(2)
    /\ ~answer.value

\* no replies at all: protected
C19_EmptyList ==
    /\ answer.call = "has_danger_levels"
    /\ board.acting_moves = << >>
    /\ answer.value


-----------------------------------------------------------------------------
(* utils/piece_trapped.py is_piece_trapped.  The board holds the piece's   *)
(* attackers and defenders where it stands and its legal moves in the      *)
(* order of calibrated_board.legal_moves; a move records whether it takes  *)
(* a king, what the board holds once it is pushed (for                     *)
(* move_creates_greater_threat) and the piece's attackers and defenders on *)
(* the destination square.                                                 *)

Standing(piece, direct_attackers, revealed_attackers, defenders) ==
    [piece |-> piece, direct_attackers |-> direct_attackers,
     revealed_attackers |-> revealed_attackers, defenders |-> defenders]

\* lines 52-85 from move k on: TRUE when no move from k on is an escape
RECURSIVE all_moves_unsafe_from(_, _, _)
all_moves_unsafe_from(b, danger_levels, k) ==
    IF k > Len(b.piece_moves) THEN TRUE
    ELSE LET move == b.piece_moves[k]
         IN  IF move.captures_king THEN FALSE
             ELSE IF danger_levels
                     /\ move_creates_greater_threat(b.standing.piece,
                                                    move.acting)
             THEN all_moves_unsafe_from(b, danger_levels, k + 1)
             \* board.piece_at(move.to_square) is now the piece itself
             ELSE IF is_piece_safe(move.escaped,
                                   PlayedMove(b.standing.piece))
             THEN FALSE
             ELSE all_moves_unsafe_from(b, danger_levels, k + 1)

\* is_piece_trapped(board, piece, danger_levels)
is_piece_trapped(b, danger_levels) ==
    LET standing_piece_safety == is_piece_safe(b.standing, NoPlayedMove)
        all_moves_unsafe == all_moves_unsafe_from(b, danger_levels, 1)
    IN  ~standing_piece_safety /\ all_moves_unsafe

-----------------------------------------------------------------------------
(* SpecTrapped: one is_piece_trapped call.                                 *)

\* no attacker; a pawn attacks and nobody defends; a queen attacks and a
\* pawn defends
SquareSafeties(piece) ==
    {Standing(piece, << >>, << >>, << >>),
     Standing(piece, << PAWN >>, << >>, << >>),
     Standing(piece, << QUEEN >>, << >>, << PAWN >>)}

\* what the piece's own move leaves: nothing, a queen that becomes unsafe, a
\* queen that was unsafe already, a mating move for the other side
EscapeActions(piece) ==
    {ActingMove(TRUE, piece, {}, FALSE),
     ActingMove(TRUE, piece, {BoardPiece(QUEEN, FALSE, FALSE)}, FALSE),
     ActingMove(TRUE, piece, {BoardPiece(QUEEN, FALSE, TRUE)}, FALSE),
     ActingMove(TRUE, piece, {}, TRUE)}

PieceMoves(piece) ==
    [captures_king : BOOLEAN,
     acting : EscapeActions(piece),
     escaped : SquareSafeties(piece)]

TrappedBoards ==
    UNION {[standing : SquareSafeties(piece),
            piece_moves : ListsUpTo(PieceMoves(piece), MaxEscapes)] :
               piece \in {KNIGHT, ROOK}}

InitTrapped ==
    /\ IdleClassifier
    /\ board \in TrappedBoards
    /\ frontier = << >>
    /\ attacking_moves = << >>
    /\ handled = 0
    /\ answer = NoAnswer

\* is_piece_trapped(board, piece, danger_levels)
IsPieceTrapped(danger_levels) ==
    /\ answer.call = None
    /\ answer' = [call |-> "is_piece_trapped", returned |-> TRUE,
                  value |-> is_piece_trapped(board, danger_levels),
                  danger_levels |-> danger_levels]
    /\ UNCHANGED << board, frontier, attacking_moves, handled >>
    /\ UNCHANGED classifier_vars

NextTrapped == \E danger_levels \in BOOLEAN : IsPieceTrapped(danger_levels)

SpecTrapped == InitTrapped /\ [][NextTrapped]_vars

-----------------------------------------------------------------------------
(* Properties of is_piece_trapped, checked under SpecTrapped *)

TrappedAsked == answer.call = "is_piece_trapped" /\ answer.danger_levels

UnsafeWhereItStands == ~is_piece_safe(board.standing, NoPlayedMove)

UnsafeOnDestination(k) ==
    ~is_piece_safe(board.piece_moves[k].escaped,
                   PlayedMove(board.standing.piece))

CreatesGreaterThreat(k) ==
    move_creates_greater_threat(board.standing.piece,
                                board.piece_moves[k].acting)

TakesKing(k) == board.piece_moves[k].captures_king

\* C20 as stated: is_piece_trapped is true exactly when the piece is unsafe
\* where it stands and every legal move of the piece leaves it unsafe on the
\* destination square or creates a greater counter-threat.
C20_TrappedIffUnsafeAndNoEscape ==
    TrappedAsked =>
        (answer.value <=>
            (/\ UnsafeWhereItStands
             /\ \A k \in DOMAIN board.piece_moves :
                    UnsafeOnDestination(k) \/ CreatesGreaterThreat(k)))

\* What the code does for C20: is_piece_trapped is true exactly when the piece
\* is unsafe where it stands, none of its moves takes a king, and every move
\* leaves it unsafe on the destination square or creates a greater
\* counter-threat; a piece safe where it stands, or with a safe destination
\* free of such a counter-threat, is never reported trapped.
C20_TrappedIffUnsafeNoEscapeNoKingCapture ==
    TrappedAsked =>
        /\ answer.value <=>
               (/\ UnsafeWhereItStands
                /\ \A k \in DOMAIN board.piece_moves :
                       /\ ~TakesKing(k)
                       /\ UnsafeOnDestination(k) \/ CreatesGreaterThreat(k))
        /\ ~UnsafeWhereItStands => ~answer.value
        /\ (\E k \in DOMAIN board.piece_moves :
                ~UnsafeOnDestination(k) /\ ~CreatesGreaterThreat(k))
           => ~answer.value

\* an unsafe piece with two moves, one to an unsafe square and one that
\* leaves a queen newly unsafe, is trapped
C20_Witness ==
    /\ TrappedAsked
    /\ UnsafeWhereItStands
    /\ Len(board.piece_moves) = 2
    /\ ~TakesKing(1) /\ ~TakesKing(2)
    /\ UnsafeOnDestination(1) /\ ~CreatesGreaterThreat(1)
    /\ ~UnsafeOnDestination(2) /\ CreatesGreaterThreat(2)
    /\ answer.value

\* an unsafe piece whose only move takes the king and leaves it unsafe on the
\* king's square is not reported trapped
C20_KingCaptureIsAnEscape ==
    /\ TrappedAsked
    /\ UnsafeWhereItStands
    /\ Len(board.piece_moves) = 1
    /\ TakesKing(1)
    /\ UnsafeOnDestination(1)
    /\ ~answer.value


-----------------------------------------------------------------------------
(* The opening name on the position record, checked under SpecClassify *)

\* values node.state.opening can hold before a call
PriorOpenings == {None, "Sicilian Defense"}

\* node.state.opening after a call that wrote `written` (None: no write)
state_opening_after(prior, written) ==
    IF written # None THEN written ELSE prior

\* C21: classifying a node writes an opening name onto the position record
\* exactly when the returned label is THEORY (BOOK), and the name is the
\* book's entry for the position; after every other outcome (another label,
\* theory disabled, a failed call) the opening field is what it was.  The
\* same holds for BasicClassifier.classify_from_state_tree_node.
C21_OpeningWrittenIffTheory ==
    \A prior \in PriorOpenings :
        /\ outcome.call # None =>
              IF outcome.returned = "result" /\ outcome.classification = BOOK
              THEN /\ outcome.opening # None
                   /\ state_opening_after(prior, outcome.opening)
                          = node.opening_name
              ELSE state_opening_after(prior, outcome.opening) = prior
        /\ basic.called =>
              IF basic.classification = BOOK
              THEN /\ basic.opening # None
                   /\ state_opening_after(prior, basic.opening)
                          = node.opening_name
              ELSE state_opening_after(prior, basic.opening) = prior

\* a THEORY result with the book's name written, by Classifier.classify and
\* by BasicClassifier on the same node
C21_Witness ==
    /\ outcome.returned = "result"
    /\ outcome.classification = BOOK
    /\ outcome.opening = "Italian Game"
    /\ node.opening_name = "Italian Game"
    /\ basic.called /\ basic.opening = "Italian Game"

\* a forced move in a book position: FORCED, nothing written
C21_ForcedBookMoveWritesNothing ==
    /\ outcome.returned = "result"
    /\ outcome.classification = FORCED
    /\ node.opening_name # None
    /\ config.has_flags /\ config.include_theory
    /\ outcome.opening = None


-----------------------------------------------------------------------------
(* utils/evaluation_utils.py get_move_accuracy and core/constants.py        *)
(* get_move_accuracy.  Accuracies are fixed-point numbers in               *)
(* ten-thousandths of a point (100.0 = 1000000).                            *)

\* round(1000000 * exp(-4 * i / 100)) for i = 0 .. 100
ExpNeg4Table ==
    << 1000000, 960789, 923116, 886920, 852144, 818731, 786628, 755784,
       726149, 697676, 670320, 644036, 618783, 594521, 571209, 548812,
       527292, 506617, 486752, 467666, 449329, 431711, 414783, 398519,
       382893, 367879, 353455, 339596, 326280, 313486, 301194, 289384,
       278037, 267135, 256661, 246597, 236928, 227638, 218712, 210136,
       201897, 193980, 186374, 179066, 172045, 165299, 158817, 152590,
       146607, 140858, 135335, 130029, 124930, 120032, 115325, 110803,
       106459, 102284, 98274, 94420, 90718, 87161, 83743, 80460,
       77305, 74274, 71361, 68563, 65875, 63292, 60810, 58426,
       56135, 53934, 51819, 49787, 47835, 45959, 44157, 42426,
       40762, 39164, 37628, 36153, 34735, 33373, 32065, 30807,
       29599, 28439, 27324, 26252, 25223, 24234, 23284, 22371,
       21494, 20651, 19841, 19063, 18316 >>

\* 1000000 * exp(ACCURACY_EXPONENT * point_loss) for a point loss in
\* millionths, interpolated between the entries of the table
exp_accuracy_exponent(point_loss) ==
    LET i == point_loss \div 10000
        r == point_loss % 10000
        a == ExpNeg4Table[i + 1]
        b == IF i + 2 <= Len(ExpNeg4Table) THEN ExpNeg4Table[i + 2] ELSE a
    IN  a - (((a - b) * r) \div 10000)

\* constants.py, in hundredths
ACCURACY_MULTIPLIER == 10316

\* constants.py, in hundredths
ACCURACY_OFFSET == 0 - 317

\* line 147: ACCURACY_MULTIPLIER * exp(ACCURACY_EXPONENT * point_loss)
\*           + ACCURACY_OFFSET
accuracy_formula(point_loss) ==
    (ACCURACY_MULTIPLIER * (exp_accuracy_exponent(point_loss) \div 100))
            \div 100
        + ACCURACY_OFFSET * 100

\* the accuracy formula cut off at 0 and at 100
clamped_accuracy(point_loss) ==
    LET accuracy == accuracy_formula(point_loss)
    IN  IF accuracy < 0 THEN 0
        ELSE IF accuracy > 1000000 THEN 1000000 ELSE accuracy

\* utils/evaluation_utils.py get_move_accuracy, given the point loss it
\* computes from its three arguments
get_move_accuracy(point_loss) == accuracy_formula(point_loss)

\* core/constants.py get_move_accuracy(point_loss)
core_get_move_accuracy(point_loss) == clamped_accuracy(point_loss)

-----------------------------------------------------------------------------
(* SpecEvaluation: one call of a function of utils/evaluation_utils.py on   *)
(* any evaluations; get_subjective_evaluation may be applied a second time  *)
(* to its own result.                                                       *)

EvaluationValues ==
    PointLossEvaluations \cup {Centipawn(0 - ExpOverflowCp)}

EvaluationBoards ==
    [previous_evaluation : EvaluationValues,
     current_evaluation : EvaluationValues,
     move_color : PieceColor]

InitEvaluation ==
    /\ IdleClassifier
    /\ board \in EvaluationBoards
    /\ frontier = << >>
    /\ attacking_moves = << >>
    /\ handled = 0
    /\ answer = NoAnswer

\* what a call leaves in answer: the value returned, or the exception
Answered(call, raised, value) ==
    [call |-> call, returned |-> raised = None, value |-> value,
     played_move |-> NoPlayedMove, raised |-> raised]

\* math.exp overflows in one of the two get_expected_points calls
loss_overflows(b) ==
    exp_overflows(b.previous_evaluation) \/ exp_overflows(b.current_evaluation)

\* get_expected_points_loss(previous_evaluation, current_evaluation, move_color)
GetExpectedPointsLoss ==
    /\ answer.call = None
    /\ answer' =
          IF loss_overflows(board)
          THEN Answered("get_expected_points_loss", "OverflowError", None)
          ELSE Answered("get_expected_points_loss", None,
                        get_expected_points_loss(board.previous_evaluation,
                                                 board.current_evaluation,
                                                 board.move_color))
    /\ UNCHANGED << board, frontier, attacking_moves, handled >>
    /\ UNCHANGED classifier_vars

\* utils.evaluation_utils.get_move_accuracy(previous_evaluation,
\* current_evaluation, move_color)
GetMoveAccuracy ==
    /\ answer.call = None
    /\ answer' =
          IF loss_overflows(board)
          THEN Answered("get_move_accuracy", "OverflowError", None)
          ELSE Answered("get_move_accuracy", None,
                        get_move_accuracy(
                            get_expected_points_loss(
                                board.previous_evaluation,
                                board.current_evaluation,
                                board.move_color)))
    /\ UNCHANGED << board, frontier, attacking_moves, handled >>
    /\ UNCHANGED classifier_vars

\* core.constants.get_move_accuracy(point_loss) on the point loss of the move
CoreGetMoveAccuracy ==
    /\ answer.call = None
    /\ ~loss_overflows(board)
    /\ answer' =
          Answered("core.get_move_accuracy", None,
                   core_get_move_accuracy(
                       get_expected_points_loss(board.previous_evaluation,
                                                board.current_evaluation,
                                                board.move_color)))
    /\ UNCHANGED << board, frontier, attacking_moves, handled >>
    /\ UNCHANGED classifier_vars

\* get_subjective_evaluation(evaluation, player_color), on the evaluation
\* before the move and then on its own result
GetSubjectiveEvaluation ==
    /\ answer.call \in {None, "get_subjective_evaluation"}
    /\ handled < 2
    /\ answer' =
          Answered("get_subjective_evaluation", None,
                   get_subjective_evaluation(
                       IF handled = 0 THEN board.previous_evaluation
                       ELSE answer.value,
                       board.move_color))
    /\ handled' = handled + 1
    /\ UNCHANGED << board, frontier, attacking_moves >>
    /\ UNCHANGED classifier_vars

NextEvaluation ==
    \/ GetExpectedPointsLoss
    \/ GetMoveAccuracy
    \/ CoreGetMoveAccuracy
    \/ GetSubjectiveEvaluation

SpecEvaluation == InitEvaluation /\ [][NextEvaluation]_vars


-----------------------------------------------------------------------------
(* Properties of utils/evaluation_utils.py, checked under SpecEvaluation *)

\* White's expected points for a White-relative evaluation; a delivered mate
\* (mate in 0) belongs to the side that made the last move
WhiteExpectedPoints(evaluation, last_mover) ==
    IF evaluation.type = "mate"
    THEN IF evaluation.value > 0
            \/ (evaluation.value = 0 /\ last_mover = WHITE)
         THEN 1000000 ELSE 0
    ELSE Sigmoid(evaluation.value)

SideExpectedPoints(side, evaluation, last_mover) ==
    IF side = WHITE THEN WhiteExpectedPoints(evaluation, last_mover)
    ELSE 1000000 - WhiteExpectedPoints(evaluation, last_mover)

\* the mover's expected points before the move (the opponent moved last) and
\* after it (the mover moved last)
MoverExpectedPointsBefore ==
    SideExpectedPoints(board.move_color, board.previous_evaluation,
                       flip_piece_color(board.move_color))

MoverExpectedPointsAfter ==
    SideExpectedPoints(board.move_color, board.current_evaluation,
                       board.move_color)

LossReturned == answer.call = "get_expected_points_loss" /\ answer.returned

\* C22: the point loss get_expected_points_loss returns is never negative,
\* for any pair of evaluations (centipawn or mate, Mate(0) included) and
\* either mover colour; it is exactly 0 whenever the move does not lower the
\* mover's expected points, and the drop in expected points otherwise.
C22_PointLossNeverNegative ==
    LossReturned =>
        /\ answer.value >= 0
        /\ MoverExpectedPointsAfter >= MoverExpectedPointsBefore
               => answer.value = 0
        /\ MoverExpectedPointsAfter < MoverExpectedPointsBefore
               => answer.value
                      = MoverExpectedPointsBefore - MoverExpectedPointsAfter

\* Black mates from a position that was better for White: an improving move
\* with a zero loss
C22_Witness ==
    /\ LossReturned
    /\ board.move_color = BLACK
    /\ board.previous_evaluation = Centipawn(300)
    /\ board.current_evaluation = Mate(0)
    /\ MoverExpectedPointsAfter > MoverExpectedPointsBefore
    /\ answer.value = 0

\* a losing move of Black keeps its positive loss
C22_BlackLosesPoints ==
    /\ LossReturned
    /\ board.move_color = BLACK
    /\ board.previous_evaluation = Centipawn(0 - 300)
    /\ board.current_evaluation = Mate(2)
    /\ answer.value > 700000


\* the accuracy of a move whose point loss was computed
AccuracyReturned(call) == answer.call = call /\ answer.returned

\* C23: the accuracy computed for a move lies between 0 and 100 inclusive
\* for every point loss of 0 or more, the largest loss of 1.0 included.
C23_AccuracyWithinRange ==
    AccuracyReturned("get_move_accuracy") =>
        (answer.value >= 0 /\ answer.value <= 1000000)

\* What the code does for C23: the accuracy of
\* utils.evaluation_utils.get_move_accuracy never exceeds 100; it is below 0
\* for every point loss above 0.88 and for none below 0.86 (the formula
\* crosses 0 at a loss of 0.8706); core.constants.get_move_accuracy stays
\* between 0 and 100.
C23_NegativeAboveLargeLoss ==
    /\ AccuracyReturned("get_move_accuracy") =>
          LET point_loss ==
                  get_expected_points_loss(board.previous_evaluation,
                                           board.current_evaluation,
                                           board.move_color)
          IN  /\ answer.value <= 1000000
              /\ point_loss > 880000 => answer.value < 0
              /\ point_loss < 860000 => answer.value >= 0
    /\ AccuracyReturned("core.get_move_accuracy") =>
          (answer.value >= 0 /\ answer.value <= 1000000)

\* a forced win turned into a forced loss: point loss 1.0, accuracy below 0
C23_WinTurnedIntoLoss ==
    /\ AccuracyReturned("get_move_accuracy")
    /\ board.move_color = WHITE
    /\ board.previous_evaluation = Mate(3)
    /\ board.current_evaluation = Mate(0 - 2)
    /\ get_expected_points_loss(board.previous_evaluation,
                                board.current_evaluation,
                                board.move_color) = 1000000
    /\ answer.value < 0

-----------------------------------------------------------------------------
(* SpecMissedOpportunity: one call of                                       *)
(* consider_missed_opportunity_classification on any pair of labels; the    *)
(* previous label may also be None, the value of a new Classifier.          *)

\* the members of the Classification enum that classify never returns
UnusedClassification ==
    {"CHECKMATE", "GREAT_FIND", "ATTACKING_MOVE", "DEFENSIVE_MOVE"}

LabelPairs ==
    [current_classification : Classification \cup UnusedClassification,
     opponent_previous_classification :
         Classification \cup UnusedClassification \cup {None}]

InitMissedOpportunity ==
    /\ IdleClassifier
    /\ board \in LabelPairs
    /\ frontier = << >>
    /\ attacking_moves = << >>
    /\ handled = 0
    /\ answer = NoAnswer

\* consider_missed_opportunity_classification(node, current, previous)
ConsiderMissedOpportunityClassification ==
    /\ answer.call = None
    /\ answer' =
           [call |-> "consider_missed_opportunity_classification",
            returned |-> TRUE,
            value |-> consider_missed_opportunity_classification(
                          board.current_classification,
                          board.opponent_previous_classification),
            played_move |-> NoPlayedMove]
    /\ UNCHANGED << config, last_classification, node, outcome, prevOutcome,
                    ply, basic, plLabel, board, frontier, attacking_moves,
                    handled >>

NextMissedOpportunity == ConsiderMissedOpportunityClassification

SpecMissedOpportunity ==
    InitMissedOpportunity /\ [][NextMissedOpportunity]_vars

MissedOpportunityAnswered ==
    answer.call = "consider_missed_opportunity_classification"

\* C24: the missed-opportunity rule is true exactly for a current label of
\* INACCURACY, MISTAKE or BLUNDER together with a previous label of MISTAKE
\* or BLUNDER, and false for every other pair of labels.
C24_MissedIffErrorAfterError ==
    MissedOpportunityAnswered =>
        (answer.value = TRUE
             <=> /\ board.current_classification
                        \in {INACCURACY, MISTAKE, BLUNDER}
                 /\ board.opponent_previous_classification
                        \in {MISTAKE, BLUNDER})

\* an inaccuracy after the opponent's blunder is a missed opportunity
C24_Witness ==
    /\ MissedOpportunityAnswered
    /\ board.current_classification = INACCURACY
    /\ board.opponent_previous_classification = BLUNDER
    /\ answer.value = TRUE

\* a blunder after the opponent's inaccuracy is not
C24_BlunderAfterInaccuracy ==
    /\ MissedOpportunityAnswered
    /\ board.current_classification = BLUNDER
    /\ board.opponent_previous_classification = INACCURACY
    /\ answer.value = FALSE

-----------------------------------------------------------------------------
(* C25 *)

SubjectiveViews(n) ==
    answer.call = "get_subjective_evaluation" /\ handled = n

\* C25: taking the subjective view of an evaluation twice for the same colour
\* gives back the original evaluation, for centipawn and mate evaluations and
\* both colours; for White one view already is the original evaluation.
C25_DoubleFlipIsIdentity ==
    /\ SubjectiveViews(2) => answer.value = board.previous_evaluation
    /\ (SubjectiveViews(1) /\ board.move_color = WHITE)
           => answer.value = board.previous_evaluation

\* Black's view of a mate for White, taken twice
C25_Witness ==
    /\ SubjectiveViews(2)
    /\ board.move_color = BLACK
    /\ board.previous_evaluation = Mate(3)
    /\ answer.value = Mate(3)

\* one view for Black changes the sign of a centipawn evaluation
C25_SingleFlipForBlack ==
    /\ SubjectiveViews(1)
    /\ board.move_color = BLACK
    /\ board.previous_evaluation.type = "centipawn"
    /\ board.previous_evaluation.value > 0
    /\ answer.value.value = 0 - board.previous_evaluation.value

-----------------------------------------------------------------------------
(* SpecCandidate: one call of Classifier.classify on a resolved node whose  *)
(* parent has a second line of 7 pawns or so for either side, at the first  *)
(* ply (the parent is the root, White moves) and at later plies.            *)

CandidateSecondLines ==
    {NoSecondLine}
        \cup {[evaluation |-> Centipawn(c), move_ok |-> TRUE] :
                  c \in {0 - 800, 0 - 700, 0 - 699, 0, 699, 700, 800}}

CandidateNodes ==
    { n \in NodeSet({TRUE}, BOOLEAN, PieceColor,
                    {Centipawn(0 - 900), Centipawn(900), Mate(0 - 3), Mate(3)},
                    {Centipawn(0 - 900), Centipawn(900), Mate(0 - 3), Mate(3)},
                    CandidateSecondLines,
                    {MaxLegalMoves}, {None}, {FALSE}, BOOLEAN,
                    {QuietMove, Sacrifice}) :
        \* the game starts with White to move
        n.parent_is_root => n.turn = WHITE }

InitCandidate ==
    /\ config \in RefineConfigs
    /\ last_classification = None
    /\ node \in CandidateNodes
    /\ outcome = NoOutcome
    /\ prevOutcome = NoOutcome
    /\ ply = 0
    /\ basic = NoBasic
    /\ plLabel = None
    /\ NoTacticalCall

NextCandidate == Classify

SpecCandidate == InitCandidate /\ [][NextCandidate]_vars

\* the second line's evaluation seen from the given side, in centipawns
SecondBestFor(color) ==
    get_subjective_evaluation(node.second.evaluation, color).value

HasCentipawnSecondLine ==
    /\ node.second.evaluation.type = "centipawn"
    /\ node.second.move_ok

Refined ==
    /\ outcome.call = "classify"
    /\ outcome.returned = "result"
    /\ outcome.classification \in {BRILLIANT, CRITICAL}

\* C26: a move is never labelled BRILLIANT or CRITICAL when the parent's
\* second-best line leaves the mover at +700 centipawns or more, measured
\* from the mover's own side, at any ply of the game.
C26_NeverRefinedWhenMoverStillWinning ==
    (HasCentipawnSecondLine /\ SecondBestFor(node.turn) >= 700) => ~Refined

\* What the code does for C26: the second line is measured from the side of
\* the move that led to the parent position, the mover's opponent (White when
\* the parent is the root); no move is labelled BRILLIANT or CRITICAL when
\* that value is +700 or more.
C26_NeverRefinedWhenParentMoverStillWinning ==
    (/\ HasCentipawnSecondLine
     /\ SecondBestFor(IF node.parent_is_root THEN WHITE
                      ELSE flip_piece_color(node.turn)) >= 700) => ~Refined

\* at the first ply the two sides coincide: White is at +800 with the second
\* line and the sacrifice is not BRILLIANT
C26_FirstPlyStillWinning ==
    /\ node.parent_is_root
    /\ HasCentipawnSecondLine
    /\ SecondBestFor(node.turn) = 800
    /\ node.previous_evaluation = Mate(3)
    /\ node.top_move_played
    /\ node.tactics = Sacrifice
    /\ config.include_brilliant
    /\ outcome.call = "classify"
    /\ outcome.returned = "result"
    /\ outcome.classification = BEST

\* at a later ply Black sacrifices while the second line leaves Black at
\* +800 (-800 for White), and the move is BRILLIANT
C26_BrilliantWhileStillWinning ==
    /\ ~node.parent_is_root
    /\ node.turn = BLACK
    /\ node.second.evaluation = Centipawn(0 - 800)
    /\ node.second.move_ok
    /\ node.previous_evaluation = Mate(0 - 3)
    /\ node.top_move_played
    /\ Refined
    /\ outcome.classification = BRILLIANT

-----------------------------------------------------------------------------
(* C27 *)

ClassifyCalled == outcome.call = "classify"

ResolvedOnBothSides ==
    /\ node.has_parent
    /\ node.previous_evaluation.type # None
    /\ node.current_evaluation.type # None

\* C27: classify raises only ValueError, and only when the node has no
\* parent or node extraction fails; for every node with a parent and resolved
\* engine data on both sides it returns a result, also when the Classifier
\* was built with the default ClassificationConfig.
C27_RaisesOnlyValueErrorWhenUnresolved ==
    ClassifyCalled =>
        /\ outcome.raised # None
               => (outcome.raised = "ValueError" /\ ~ResolvedOnBothSides)
        /\ ResolvedOnBothSides => outcome.returned = "result"

\* What the code does for C27: a node without parent or engine data raises
\* ValueError; a resolved node with more than one legal move in the parent
\* position raises AttributeError when the options are the default
\* ClassificationConfig, which has none of the include_* attributes; every
\* other call returns a result (evaluations short of the overflow of
\* math.exp).
C27_DefaultConfigRaisesAttributeError ==
    ClassifyCalled =>
        /\ outcome.raised = "ValueError" <=> ~ResolvedOnBothSides
        /\ outcome.raised = "AttributeError"
               <=> /\ ResolvedOnBothSides
                   /\ node.legal_moves > 1
                   /\ ~config.has_flags
        /\ outcome.raised \in {None, "ValueError", "AttributeError"}
        /\ outcome.raised = None <=> outcome.returned = "result"

\* Classifier() with its default configuration on a resolved node
C27_AttributeErrorOnResolvedNode ==
    /\ ClassifyCalled
    /\ config = DefaultClassificationConfig
    /\ ResolvedOnBothSides
    /\ node.legal_moves = MaxLegalMoves
    /\ outcome.raised = "AttributeError"
    /\ outcome.returned = "raise"

\* the node without parent of the claim
C27_NoParentRaisesValueError ==
    /\ ClassifyCalled
    /\ ~node.has_parent
    /\ outcome.raised = "ValueError"

-----------------------------------------------------------------------------
(* C28, checked under SpecBattery *)

\* the piece on square j of line i attacks once every piece in front of it
\* is gone, and each of those is an attacker other than a king
in_battery(b, i, j) ==
    LET line == b.lines[i]
    IN  /\ line.squares[j] # Empty
        /\ attacks_along(line.squares[j], line.direction, j)
        /\ \A k \in 1 .. (j - 1) :
               line.squares[k] # Empty
                   => /\ attacks_along(line.squares[k], line.direction, k)
                      /\ line.squares[k] # KING

\* the direct attackers and the attackers revealed behind attackers
BatteryMoves(b) ==
    { m \in UNION { { RawMove(b.lines[i].squares[j], << i, j >>, promotion) :
                          j \in DOMAIN b.lines[i].squares,
                          promotion \in {None, QUEEN, ROOK, BISHOP, KNIGHT} } :
                      i \in DOMAIN b.lines } :
        /\ in_battery(b, m.from_square[1], m.from_square[2])
        /\ (m.promotion # None) <=> (m.piece = PAWN /\ b.promotes) }

TransitiveReturned ==
    /\ answer.call = "get_attacking_moves"
    /\ answer.returned
    /\ answer.transitive

MovesOf(moves) == {moves[k] : k \in DOMAIN moves}

\* C28: get_attacking_moves with transitive=True returns every direct
\* attacker, first in the list, plus exactly the attackers revealed by
\* removing an attacker already found; nothing behind a king is revealed;
\* without a promoting pawn capture no attacker is listed twice.
C28_DirectPlusRevealedAttackers ==
    TransitiveReturned =>
        LET direct == direct_attacking_moves(board)
        IN  /\ Len(answer.value) >= Len(direct)
            /\ SubSeq(answer.value, 1, Len(direct)) = direct
            /\ MovesOf(answer.value) = BatteryMoves(board)
            /\ ~board.promotes
                   => Len(answer.value) = Cardinality(MovesOf(answer.value))

\* a queen revealed behind a bishop, and a rook that stays alone
C28_Witness ==
    /\ TransitiveReturned
    /\ board.lines[1].squares = << BISHOP, QUEEN >>
    /\ board.lines[3].squares = << ROOK >>
    /\ ~board.promotes
    /\ answer.value = << RawMove(BISHOP, << 1, 1 >>, None),
                         RawMove(ROOK, << 3, 1 >>, None),
                         RawMove(QUEEN, << 1, 2 >>, None) >>

\* the queen behind a king is not found
C28_NothingBehindKing ==
    /\ TransitiveReturned
    /\ board.lines[1].squares = << KING, QUEEN >>
    /\ board.lines[3].squares = << >>
    /\ board.lines[2].squares = << >>
    /\ answer.value = << RawMove(KING, << 1, 1 >>, None) >>

\* the queen revealed behind a promoting pawn is listed once for each of the
\* pawn's four promotion captures
C28_RevealedBehindPromotingPawn ==
    /\ TransitiveReturned
    /\ board.promotes
    /\ board.lines[1].squares = << PAWN, QUEEN >>
    /\ board.lines[2].squares = << >>
    /\ board.lines[3].squares = << >>
    /\ Len(answer.value) = 8
    /\ \A k \in 5 .. 8 : answer.value[k] = RawMove(QUEEN, << 1, 2 >>, None)

-----------------------------------------------------------------------------
(* C29, checked under SpecDanger; consider_brilliant_classification calls   *)
(* has_danger_levels without a strategy, which is "leaves".                 *)

\* the reply leads to a counter-threat that was not there before it: another
\* unsafe piece of the capturing side, worth at least the threatened piece,
\* whose attack is new, or the mate of CounterThreat
NewCounterThreat(k) ==
    LET reply == board.acting_moves[k]
    IN  /\ reply.pushes
        /\ \/ \E p \in reply.unsafe_pieces :
                  /\ ~p.on_threatened_square
                  /\ ~p.attacked_before
                  /\ PIECE_VALUES[p.type]
                         >= PIECE_VALUES[board.threatened_piece]
           \/ /\ PIECE_VALUES[board.threatened_piece] < PIECE_VALUES[QUEEN]
              /\ reply.mate

DangerLevelsAsked(equality_strategy) ==
    /\ answer.call = "has_danger_levels"
    /\ answer.equality_strategy = equality_strategy

\* C29: danger-level protection as the BRILLIANT check asks for it counts a
\* counter-threat on another unsafe piece only if it is new: a piece is
\* protected only if every capturing reply leads to a new counter-threat.
C29_ProtectedOnlyByNewCounterThreats ==
    (DangerLevelsAsked("leaves") /\ answer.value)
        => \A k \in DOMAIN board.acting_moves : NewCounterThreat(k)

\* What the code does for C29: only the "creates" strategy, which the
\* BRILLIANT check does not use, asks for new counter-threats; the default
\* strategy is satisfied by any counter-threat left after the reply.
C29_OnlyCreatesAsksForNewCounterThreats ==
    /\ (DangerLevelsAsked("creates") /\ answer.value)
           => \A k \in DOMAIN board.acting_moves : NewCounterThreat(k)
    /\ DangerLevelsAsked("leaves")
           => (answer.value
                  <=> \A k \in DOMAIN board.acting_moves : CounterThreat(k))

\* the only reply leaves a queen unsafe that was attacked before it already,
\* and the knight counts as protected
C29_OldThreatProtects ==
    /\ DangerLevelsAsked("leaves")
    /\ board.threatened_piece = KNIGHT
    /\ Len(board.acting_moves) = 1
    /\ board.acting_moves[1].pushes
    /\ board.acting_moves[1].unsafe_pieces = {BoardPiece(QUEEN, FALSE, TRUE)}
    /\ ~board.acting_moves[1].mate
    /\ answer.value

-----------------------------------------------------------------------------
(* C30, checked under SpecClassify: last_classification is None in a new     *)
(* Classifier and the label of an earlier move otherwise.                    *)

\* C30: after every classify call that returns a result, the FORCED, THEORY
\* and CHECKMATE exits included, the stored previous classification is the
\* label just returned; after a call that fails it is unchanged; and while it
\* is empty, as in a new Classifier, the move classified is not flagged as a
\* missed opportunity.
C30_StoredLabelIsLastResult ==
    [][outcome' # outcome =>
          /\ outcome'.call = "classify"
          /\ outcome'.returned = "result"
                 => last_classification' = outcome'.classification
          /\ outcome'.returned # "result"
                 => last_classification' = last_classification
          /\ last_classification = None
                 => ~outcome'.is_missed_opportunity]_vars

\* the FORCED exit stored its label
C30_Witness ==
    /\ outcome.call = "classify"
    /\ outcome.returned = "result"
    /\ outcome.classification = FORCED
    /\ last_classification = FORCED

\* the THEORY exit stored its label
C30_BookStored ==
    /\ outcome.call = "classify"
    /\ outcome.classification = BOOK
    /\ last_classification = BOOK

\* the CHECKMATE exit stored its label
C30_CheckmateStored ==
    /\ outcome.call = "classify"
    /\ node.is_checkmate
    /\ outcome.base = None
    /\ outcome.classification = BEST
    /\ last_classification = BEST

\* a failed call left the stored label alone
C30_FailedCallKeepsLabel ==
    /\ outcome.call = "classify"
    /\ outcome.raised = "ValueError"
    /\ last_classification = BLUNDER

\* an error after a stored blunder is flagged: the flag is not always off
C30_FlaggedAfterStoredBlunder ==
    /\ outcome.call = "classify"
    /\ outcome.is_missed_opportunity
    /\ last_classification \in {INACCURACY, MISTAKE, BLUNDER}

====
